---- MODULE Spec2Model ----
(***************************************************************************)
(* The request router of the assistant backend (backend/app/main.py) with  *)
(* the language-model client it calls (services/ollama_service.py).        *)
(*                                                                         *)
(* Text is modelled as Python models it: a str is a sequence of one-       *)
(* character strings, and the str methods the handlers use (lower, in,     *)
(* replace, split, strip, isdigit) are operators on such sequences.        *)
(* A request is handled in steps that end where the coroutine awaits       *)
(* an external call, so that requests in flight interleave at those        *)
(* points and nowhere else.                                                *)
(***************************************************************************)
EXTENDS Integers, Sequences, FiniteSets, TLC

\* ---------------------------------------------------------------- bounds
\* requests that arrive in one behaviour
MaxRequests == 2
\* lines of one streamed /api/generate reply
MaxLines == 2

\* ------------------------------------------------------- Python str model
\* Python's None where a str is expected: no str holds a two-letter element
NoneVal ==
    << "None" >>

UpperCase ==
    << "A", "B", "C", "D", "E", "F", "G", "H", "I", "J", "K", "L", "M",
       "N", "O", "P", "Q", "R", "S", "T", "U", "V", "W", "X", "Y", "Z" >>

LowerCase ==
    << "a", "b", "c", "d", "e", "f", "g", "h", "i", "j", "k", "l", "m",
       "n", "o", "p", "q", "r", "s", "t", "u", "v", "w", "x", "y", "z" >>

Digits ==
    { "0", "1", "2", "3", "4", "5", "6", "7", "8", "9" }

Whitespace ==
    { " ", "\t", "\n" }

LowerChar(c) ==
    IF \E i \in 1..Len(UpperCase) : UpperCase[i] = c
    THEN LowerCase[CHOOSE i \in 1..Len(UpperCase) : UpperCase[i] = c]
    ELSE c

\* str.lower()
Lower(s) ==
    [i \in 1..Len(s) |-> LowerChar(s[i])]

\* sub in s
Contains(s, sub) ==
    \E i \in 0..(Len(s) - Len(sub)) : SubSeq(s, i + 1, i + Len(sub)) = sub

\* any(k in s for k in keys), keys a sequence of str
ContainsAny(s, keys) ==
    \E i \in 1..Len(keys) : Contains(s, keys[i])

StartsWith(s, pre) ==
    Len(s) >= Len(pre) /\ SubSeq(s, 1, Len(pre)) = pre

RECURSIVE Replace(_, _, _)
\* s.replace(old, new), old not empty: non-overlapping occurrences, left to right
Replace(s, old, new) ==
    IF Len(s) < Len(old) THEN s
    ELSE IF StartsWith(s, old)
         THEN new \o Replace(SubSeq(s, Len(old) + 1, Len(s)), old, new)
         ELSE << s[1] >> \o Replace(Tail(s), old, new)

RECURSIVE SplitFrom(_, _, _)
SplitFrom(s, sep, cur) ==
    IF s = << >> THEN << cur >>
    ELSE IF StartsWith(s, sep)
         THEN << cur >> \o SplitFrom(SubSeq(s, Len(sep) + 1, Len(s)), sep, << >>)
         ELSE SplitFrom(Tail(s), sep, Append(cur, s[1]))

\* s.split(sep), sep not empty: the sequence of the pieces
Split(s, sep) ==
    SplitFrom(s, sep, << >>)

RECURSIVE LStripSet(_, _)
LStripSet(s, cs) ==
    IF s # << >> /\ s[1] \in cs THEN LStripSet(Tail(s), cs) ELSE s

RECURSIVE RStripSet(_, _)
RStripSet(s, cs) ==
    IF s # << >> /\ s[Len(s)] \in cs THEN RStripSet(SubSeq(s, 1, Len(s) - 1), cs) ELSE s

\* s.strip(chars)
StripSet(s, cs) ==
    RStripSet(LStripSet(s, cs), cs)

\* s.strip()
Strip(s) ==
    StripSet(s, Whitespace)

\* s.isdigit()
IsDigit(s) ==
    s # << >> /\ \A i \in 1..Len(s) : s[i] \in Digits

RECURSIVE Join(_)
\* "".join(chunks), chunks a sequence of TLA+ strings
Join(chunks) ==
    IF chunks = << >> THEN "" ELSE Head(chunks) \o Join(Tail(chunks))

\* how often e occurs in the sequence log
Count(log, e) ==
    Cardinality({i \in 1..Len(log) : log[i] = e})

\* ------------------------------------------------------------- literals
\* get_fallback_response: the phrase lists, in the order the code tests them (main.py:82-113)
Greetings ==
    << <<"h", "e", "l", "l", "o">>,
       <<"h", "i">>,
       <<"h", "e", "y">>,
       <<"g", "o", "o", "d", " ", "m", "o", "r", "n", "i", "n", "g">>,
       <<"g", "o", "o", "d", " ", "a", "f", "t", "e", "r", "n", "o", "o", "n">>,
       <<"g", "o", "o", "d", " ", "e", "v", "e", "n", "i", "n", "g">> >>
StatusPhrases ==
    << <<"h", "o", "w", " ", "a", "r", "e", " ", "y", "o", "u">>,
       <<"h", "o", "w", " ", "d", "o", " ", "y", "o", "u", " ", "d", "o">>,
       <<"w", "h", "a", "t", "'", "s", " ", "u", "p">> >>
HelpPhrases ==
    << <<"h", "e", "l", "p">>,
       <<"w", "h", "a", "t", " ", "c", "a", "n", " ", "y", "o", "u", " ", "d", "o">>,
       <<"c", "a", "p", "a", "b", "i", "l", "i", "t", "i", "e", "s">>,
       <<"f", "e", "a", "t", "u", "r", "e", "s">> >>
TimePhrases ==
    << <<"t", "i", "m", "e">>,
       <<"d", "a", "t", "e">>,
       <<"t", "o", "d", "a", "y">>,
       <<"n", "o", "w">> >>
ThanksPhrases ==
    << <<"t", "h", "a", "n", "k", " ", "y", "o", "u">>,
       <<"t", "h", "a", "n", "k", "s">>,
       <<"t", "h", "a", "n", "k">>,
       <<"a", "p", "p", "r", "e", "c", "i", "a", "t", "e">> >>
ByePhrases ==
    << <<"b", "y", "e">>,
       <<"g", "o", "o", "d", "b", "y", "e">>,
       <<"s", "e", "e", " ", "y", "o", "u">>,
       <<"f", "a", "r", "e", "w", "e", "l", "l">> >>

\* handle_sms: the literals of the command tests and of the extraction (main.py:605-664)
K_text ==
    <<"t", "e", "x", "t">>
K_saying ==
    <<"s", "a", "y", "i", "n", "g">>
K_to_say ==
    <<"t", "o", " ", "s", "a", "y">>
K_send ==
    <<"s", "e", "n", "d">>
K_message ==
    <<"m", "e", "s", "s", "a", "g", "e">>
K_to ==
    <<"t", "o">>
K_list ==
    <<"l", "i", "s", "t">>
K_scheduled ==
    <<"s", "c", "h", "e", "d", "u", "l", "e", "d">>
K_cancel ==
    <<"c", "a", "n", "c", "e", "l">>
K_sms ==
    <<"s", "m", "s">>
K_tomorrow ==
    <<"t", "o", "m", "o", "r", "r", "o", "w">>
K_every_day ==
    <<"e", "v", "e", "r", "y", " ", "d", "a", "y">>
Underscore ==
    <<"_">>

\* the first phone number and display name of the contact the People API returns
ContactPhone ==
    <<"+", "1", "5", "5", "5", "0", "1", "0", "0">>
ContactName ==
    <<"M", "o", "m", " ", "S", "m", "i", "t", "h">>

\* sample inbound messages
Msg_Empty ==
    <<>>
Msg_Hello ==
    <<"H", "e", "l", "l", "o">>
Msg_Ok ==
    <<"o", "k">>
Msg_Calendar ==
    <<"s", "h", "o", "w", " ", "m", "y", " ", "c", "a", "l", "e", "n", "d", "a", "r">>
Msg_TextMom ==
    <<"T", "e", "x", "t", " ", "M", "o", "m", " ", "s", "a", "y", "i", "n", "g", " ", "H", "i">>
Msg_TextOnly ==
    <<"t", "e", "x", "t", " ", "m", "o", "m">>
Msg_TextLater ==
    <<"T", "e", "x", "t", " ", "5", "5", "5", " ", "s", "a", "y", "i", "n", "g", " ", "h", "i", " ", "t", "o", "m", "o", "r", "r", "o", "w">>
Msg_Photos ==
    <<"f", "i", "n", "d", " ", "p", "h", "o", "t", "o", "s">>

\* sample user and session identifiers
Id_a ==
    <<"a">>
Id_a_b ==
    <<"a", "_", "b">>
Id_c ==
    <<"c">>
Id_b_c ==
    <<"b", "_", "c">>

\* service vocabulary of the classifier, one keyword per service identifier
KW_calendar ==
    <<"c", "a", "l", "e", "n", "d", "a", "r">>
KW_gmail ==
    <<"e", "m", "a", "i", "l">>
KW_drive ==
    <<"d", "r", "i", "v", "e">>
KW_sheets ==
    <<"s", "p", "r", "e", "a", "d", "s", "h", "e", "e", "t">>
KW_docs ==
    <<"d", "o", "c", "u", "m", "e", "n", "t">>
KW_contacts ==
    <<"c", "o", "n", "t", "a", "c", "t">>
KW_sms ==
    <<"t", "e", "x", "t">>
KW_tasks ==
    <<"t", "a", "s", "k">>
KW_keep ==
    <<"n", "o", "t", "e">>
KW_slides ==
    <<"p", "r", "e", "s", "e", "n", "t", "a", "t", "i", "o", "n">>
KW_forms ==
    <<"f", "o", "r", "m">>
KW_photos ==
    <<"p", "h", "o", "t", "o">>


\* ------------------------------------------------------------ data model
\* the keys of the dispatch table service_handlers
Services ==
    { "calendar", "gmail", "drive", "sheets", "docs", "contacts",
      "tasks", "keep", "slides", "forms", "sms" }

\* the dispatch table binds a handler to every service the classifier names
ServiceHandlers_Everything ==
    [ s \in Services \cup { "photos" } |-> "handle_google_" \o s ]

\* service_handlers: service identifier -> the handler function bound to it
ServiceHandlers ==
    [ s \in Services |->
        CASE s = "calendar" -> "handle_google_calendar"
          [] s = "gmail"    -> "handle_google_gmail"
          [] s = "drive"    -> "handle_google_drive"
          [] s = "sheets"   -> "handle_google_sheets"
          [] s = "docs"     -> "handle_google_docs"
          [] s = "contacts" -> "handle_google_contacts"
          [] s = "tasks"    -> "handle_google_tasks"
          [] s = "keep"     -> "handle_google_keep"
          [] s = "slides"   -> "handle_google_slides"
          [] s = "forms"    -> "handle_google_forms"
          [] s = "sms"      -> "handle_sms" ]

\* a service identifier the classifier may name and the dispatch table lacks
UnregisteredServices ==
    { "photos" }

\* service_name.title()
ServiceTitle(s) ==
    CASE s = "calendar" -> "Calendar"
      [] s = "gmail"    -> "Gmail"
      [] s = "drive"    -> "Drive"
      [] s = "sheets"   -> "Sheets"
      [] s = "docs"     -> "Docs"
      [] s = "contacts" -> "Contacts"
      [] s = "tasks"    -> "Tasks"
      [] s = "keep"     -> "Keep"
      [] s = "slides"   -> "Slides"
      [] s = "forms"    -> "Forms"
      [] s = "sms"      -> "Sms"
      [] s = "photos"   -> "Photos"
      [] OTHER          -> s

\* access_token values: absent (None), the empty string, a token the Google
\* APIs accept, a token they reject
TokNone == "<None>"
TokEmpty == ""
TokValid == "token-valid"
TokInvalid == "token-expired"

AccessTokens ==
    { TokNone, TokEmpty, TokValid, TokInvalid }

\* the credential test written as "access_token is not None"
Truthy_NotNone(tok) ==
    tok # TokNone

\* Python truthiness of access_token ("if not access_token", "if access_token")
Truthy(tok) ==
    tok \notin { TokNone, TokEmpty }

\* image part of a unified query: absent (None), zero bytes, some bytes
ImgNone == "<None>"
ImgEmpty == ""
ImgBytes == "image-bytes"

\* Python truthiness of image_data ("if image_data")
HasImage(img) ==
    img \notin { ImgNone, ImgEmpty }

\* a display text: which sentence (k), the service it names, its variable
\* part, and the format_response passes applied to it
Text(k, service, detail) ==
    [ k |-> k, service |-> service, detail |-> detail, cleaned |-> << >> ]

\* "Please provide a message."
TxtProvide ==
    Text("provide_message", "", << >>)

\* f"Please sign in with Google to use {service.title()} services."
TxtSignIn(service) ==
    Text("sign_in", ServiceTitle(service), << >>)

\* f"An error occurred while accessing {service_name.title()}."
TxtAccessError(service) ==
    Text("access_error", ServiceTitle(service), << >>)

\* f"{service_name.title()} service is not yet implemented."
TxtNotImplemented(service) ==
    Text("not_implemented", ServiceTitle(service), << >>)

\* "I'm not sure how to help with that. Could you please rephrase your request?"
TxtUnknownIntent ==
    Text("unknown_intent", "", << >>)

\* "Please sign in to process images and save content to Google services."
TxtImageSignIn ==
    Text("image_sign_in", "", << >>)

\* "I encountered an error processing your request."
TxtUnifiedError ==
    Text("unified_error", "", << >>)

\* the canned reply of one fallback category
TxtFallback(category) ==
    Text("fallback", "", << category >>)

\* the text the language model produced
TxtOllama(joined) ==
    Text("ollama", "", << joined >>)

\* response_formatter.format_response(text, source=...): the cleanup pass; it
\* is total and keeps which text it cleaned
FormatResponse(text, source) ==
    [ text EXCEPT !.cleaned = Append(@, source) ]

\* response_formatter.format_google_service_response(service, result): a pure
\* function of the service and of the handler's result
FormatServiceResponse(service, result) ==
    Text("formatted", ServiceTitle(service), << result.action, result.error >>)

\* a handler's result dict: the keys it holds and their values
Result(keys, action) ==
    [ keys |-> keys, action |-> action, error |-> "", instruction |-> "",
      recipient |-> NoneVal, contact_name |-> NoneVal,
      message_content |-> NoneVal, schedule |-> "" ]

\* {"error": str(e)}
ErrorResult(err) ==
    [ Result({ "error" }, "") EXCEPT !.error = err ]

\* service_result.get(key) on a handler's result
ResultGet(result, key) ==
    IF key \in result.keys THEN result[key] ELSE NoneVal

\* the JSON body of web.json_response({"response": ..., "source": ...})
Response(text, source) ==
    [ keys |-> { "response", "source" }, response |-> text, source |-> source,
      instruction |-> "", recipient |-> NoneVal, message_content |-> NoneVal ]

\* the instruction response names the contact instead of the handler's recipient
InstructionResponse_ContactName(text, source, result) ==
    [ keys |-> { "response", "source", "instruction", "recipient", "message_content" },
      response |-> text, source |-> source,
      instruction |-> result.instruction,
      recipient |-> ResultGet(result, "contact_name"),
      message_content |-> ResultGet(result, "message_content") ]

\* the JSON body of the response that carries the SMS instruction
InstructionResponse(text, source, result) ==
    [ keys |-> { "response", "source", "instruction", "recipient", "message_content" },
      response |-> text, source |-> source,
      instruction |-> result.instruction,
      recipient |-> ResultGet(result, "recipient"),
      message_content |-> ResultGet(result, "message_content") ]

\* no response was produced (yet)
NoResponse ==
    [ keys |-> { }, response |-> Text("", "", << >>), source |-> "",
      instruction |-> "", recipient |-> NoneVal, message_content |-> NoneVal ]

\* intent_result = None
NoIntent ==
    [ type |-> "none", service |-> "" ]

\* ------------------------------------------------------ intent classifier
\* the classifier's rule table: keyword and service, in priority order
ClassifierTable ==
    << << KW_calendar, "calendar" >>, << KW_gmail, "gmail" >>,
       << KW_drive, "drive" >>, << KW_sheets, "sheets" >>,
       << KW_docs, "docs" >>, << KW_contacts, "contacts" >>,
       << KW_sms, "sms" >>, << KW_tasks, "tasks" >>, << KW_keep, "keep" >>,
       << KW_slides, "slides" >>, << KW_forms, "forms" >>,
       << KW_photos, "photos" >> >>

\* intent_classifier.classify(message): the first rule whose keyword is a
\* case-insensitive substring of the message decides; no rule means llm
Classify(message) ==
    LET ml == Lower(message)
        hits == { i \in 1..Len(ClassifierTable) : Contains(ml, ClassifierTable[i][1]) }
    IN  IF hits = { }
        THEN [ type |-> "llm", service |-> "" ]
        ELSE [ type |-> "google",
               service |-> ClassifierTable[CHOOSE i \in hits : \A j \in hits : i <= j][2] ]

\* ---------------------------------------------------- rule-based fallback
\* the status inquiry is tested before the greeting
FallbackCategory_StatusFirst(message) ==
    LET message_lower == Strip(Lower(message))
    IN  IF ContainsAny(message_lower, StatusPhrases) THEN "status"
        ELSE IF ContainsAny(message_lower, Greetings) THEN "greeting"
        ELSE IF ContainsAny(message_lower, HelpPhrases) THEN "help"
        ELSE IF ContainsAny(message_lower, TimePhrases) THEN "datetime"
        ELSE IF ContainsAny(message_lower, ThanksPhrases) THEN "thanks"
        ELSE IF ContainsAny(message_lower, ByePhrases) THEN "farewell"
        ELSE "generic"

\* get_fallback_response(message): the category whose canned reply is returned
FallbackCategory(message) ==
    LET message_lower == Strip(Lower(message))
    IN  IF ContainsAny(message_lower, Greetings) THEN "greeting"
        ELSE IF ContainsAny(message_lower, StatusPhrases) THEN "status"
        ELSE IF ContainsAny(message_lower, HelpPhrases) THEN "help"
        ELSE IF ContainsAny(message_lower, TimePhrases) THEN "datetime"
        ELSE IF ContainsAny(message_lower, ThanksPhrases) THEN "thanks"
        ELSE IF ContainsAny(message_lower, ByePhrases) THEN "farewell"
        ELSE "generic"

GetFallbackResponse(message) ==
    TxtFallback(FallbackCategory(message))

\* ------------------------------------------------------------ SMS handler
\* outcomes of people().searchContacts(...).execute(): no match, a match
\* without phone numbers, a match with a phone number and a name, an exception
LookupOutcomes ==
    { "none", "nophone", "found", "fail" }

\* advanced_sms_service.parse_sms_command(message): recipient and body by the
\* "saying" rule, and a schedule descriptor when the text holds a scheduling cue
ParseSmsCommand(message) ==
    LET ml == Lower(message)
        parts == Split(Replace(ml, K_to_say, K_saying), K_saying)
        found == Len(parts) >= 2
    IN  [ schedule |-> IF Contains(ml, K_tomorrow) THEN "when=tomorrow"
                       ELSE IF Contains(ml, K_every_day) THEN "when=daily"
                       ELSE "",
          recipient |-> IF found
                        THEN Strip(Replace(Replace(parts[1], K_text, << >>), K_to, << >>))
                        ELSE << >>,
          message |-> IF found THEN Strip(parts[2]) ELSE << >> ]

\* handle_sms, immediate branch: the recipient query cut out of the message
RecipientQuery(message) ==
    LET parts == Split(Replace(Lower(message), K_to_say, K_saying), K_saying)
    IN  Strip(Replace(Replace(Replace(Replace(parts[1],
            K_text, << >>), K_send, << >>), K_message, << >>), K_to, << >>))

\* handle_sms, immediate branch: the message body cut out of the message
SmsContent(message) ==
    LET parts == Split(Replace(Lower(message), K_to_say, K_saying), K_saying)
    IN  StripSet(StripSet(Strip(parts[2]), { "\"" }), { "'" })

\* the "text ... saying" test comes before the test of the schedule descriptor
SmsBranch_SendFirst(message) ==
    LET ml == Lower(message)
    IN  IF Contains(ml, K_text) /\ (Contains(ml, K_saying) \/ Contains(ml, K_to_say))
        THEN IF Len(Split(Replace(ml, K_to_say, K_saying), K_saying)) >= 2
             THEN "send" ELSE "help"
        ELSE IF ParseSmsCommand(message).schedule # "" THEN "schedule"
        ELSE IF Contains(ml, K_list) /\ Contains(ml, K_scheduled) THEN "list"
        ELSE IF Contains(ml, K_cancel) /\ Contains(ml, K_sms) THEN "cancel"
        ELSE "help"

\* which branch of handle_sms a message takes
SmsBranch(message) ==
    LET ml == Lower(message)
    IN  IF ParseSmsCommand(message).schedule # "" THEN "schedule"
        ELSE IF Contains(ml, K_text) /\ (Contains(ml, K_saying) \/ Contains(ml, K_to_say))
             THEN IF Len(Split(Replace(ml, K_to_say, K_saying), K_saying)) >= 2
                  THEN "send" ELSE "help"
        ELSE IF Contains(ml, K_list) /\ Contains(ml, K_scheduled) THEN "list"
        ELSE IF Contains(ml, K_cancel) /\ Contains(ml, K_sms) THEN "cancel"
        ELSE "help"

\* whether handle_sms searches the contacts for this message and token
SmsLooksUp(message, token) ==
    CASE SmsBranch(message) = "schedule" ->
            LET recipient == ParseSmsCommand(message).recipient
            IN  Truthy(token) /\ recipient # << >> /\ ~IsDigit(recipient)
      [] SmsBranch(message) = "send" -> Truthy(token)
      [] OTHER -> FALSE

\* the calls handle_sms makes on its collaborators, in order
SmsCalls(message, token) ==
    << "parse_sms_command" >>
    \o (IF SmsLooksUp(message, token) THEN << "searchContacts" >> ELSE << >>)
    \o (CASE SmsBranch(message) = "schedule" -> << "schedule_sms" >>
          [] SmsBranch(message) = "list" -> << "list_scheduled_messages" >>
          [] OTHER -> << >>)

\* without a contact's number there is no phone number at all
SmsPhoneNumber_NoFallback(hit, query) ==
    IF hit THEN ContactPhone ELSE NoneVal

\* handle_sms, lines 583-584 and 640-642: the contact's number when the search
\* gave one, else the recipient query as it is
SmsPhoneNumber(hit, query) ==
    IF hit THEN ContactPhone ELSE query

\* every messaging message is turned into a send, whatever could be extracted
HandleSms_AlwaysSends(message, token, lookup, sched) ==
    [ Result({ "action", "recipient", "contact_name", "message_content",
               "instruction", "status", "response" }, "send_sms")
      EXCEPT !.recipient = RecipientQuery(message),
             !.contact_name = RecipientQuery(message),
             !.message_content = << >>,
             !.instruction = "SEND_SMS" ]

\* handle_sms(message, access_token) when the contact search ends as lookup
\* and the scheduler call (or the listing) succeeds or raises
HandleSms(message, token, lookup, sched) ==
    LET branch == SmsBranch(message)
        cmd == ParseSmsCommand(message)
        query == IF branch = "schedule" THEN cmd.recipient ELSE RecipientQuery(message)
        content == IF branch = "schedule" THEN cmd.message ELSE SmsContent(message)
        hit == SmsLooksUp(message, token) /\ lookup = "found"
        phone_number == SmsPhoneNumber(hit, query)
        contact_name == IF hit THEN ContactName ELSE query
        failed == [ Result({ "error", "action" }, "send_sms") EXCEPT !.error = "scheduler" ]
    IN  CASE branch = "schedule" ->
               IF sched = "fail" THEN failed
               ELSE [ Result({ "action", "recipient", "contact_name", "message_content",
                               "schedule", "instruction", "status", "response" },
                             "schedule_sms")
                      EXCEPT !.recipient = phone_number, !.contact_name = contact_name,
                             !.message_content = content, !.schedule = cmd.schedule,
                             !.instruction = "SCHEDULE_SMS" ]
          [] branch = "send" ->
               [ Result({ "action", "recipient", "contact_name", "message_content",
                          "instruction", "status", "response" }, "send_sms")
                 EXCEPT !.recipient = phone_number, !.contact_name = contact_name,
                        !.message_content = content, !.instruction = "SEND_SMS" ]
          [] branch = "list" ->
               IF sched = "fail" THEN failed
               ELSE Result({ "action", "scheduled_messages", "response" }, "list_scheduled_sms")
          [] branch = "cancel" -> Result({ "action", "response" }, "cancel_sms")
          [] OTHER -> Result({ "action", "response" }, "sms")

\* ------------------------------------------------------- Google handlers
\* how the Google API calls of a handler end for a token: every handler but
\* handle_google_keep calls the API, and the API rejects an expired token
ApiOutcomes(service, token) ==
    IF service = "keep" THEN { "ok" }
    ELSE IF token = TokInvalid THEN { "error" }
    ELSE { "ok", "error" }

\* handle_google_<service>(message, access_token): every failure inside the
\* handler is caught there and returned as {"error": str(e)}
HandleGoogle(service, api) ==
    IF api = "ok" THEN Result({ "action" }, service) ELSE ErrorResult("api")

\* handle_image_processing(message, image_data, access_token)
HandleImage(api) ==
    IF api = "ok"
    THEN Result({ "action", "response", "extracted_text" }, "image_processed")
    ELSE [ Result({ "error", "action" }, "image_processed") EXCEPT !.error = "api" ]

\* ----------------------------------------------------------- Ollama client
\* lines of the streamed reply: a fragment, the closing line, an undecodable line
Lines ==
    { [ valid |-> TRUE, has_response |-> TRUE, response |-> "Hi ", done |-> FALSE ],
      [ valid |-> TRUE, has_response |-> TRUE, response |-> "there", done |-> FALSE ],
      [ valid |-> TRUE, has_response |-> FALSE, response |-> "", done |-> TRUE ],
      [ valid |-> FALSE, has_response |-> FALSE, response |-> "", done |-> FALSE ] }

\* f"Error: Ollama returned status {response.status}"
ErrStatus == "Error: Ollama returned status 500"
\* f"Error: Could not connect to Ollama at {self.base_url}. Is Ollama running?"
ErrConnect == "Error: Could not connect to Ollama"

RECURSIVE StreamChunks(_, _)
\* the fragments generate yields while it reads the lines; after them the
\* connection drops when broken
StreamChunks(lines, broken) ==
    IF lines = << >> THEN (IF broken THEN << ErrConnect >> ELSE << >>)
    ELSE LET line == Head(lines)
         IN  IF ~line.valid THEN StreamChunks(Tail(lines), broken)
             ELSE (IF line.has_response THEN << line.response >> ELSE << >>)
                  \o (IF line.done THEN << >> ELSE StreamChunks(Tail(lines), broken))

\* generate was not called
NoReply ==
    [ status |-> "none", lines |-> << >>, broken |-> FALSE ]

\* the replies of the model backend to POST /api/generate
GenReplies ==
    { [ status |-> s, lines |-> << >>, broken |-> FALSE ] : s \in { "http_error", "connect_error" } }
    \cup
    { [ status |-> "ok", lines |-> ls, broken |-> b ] :
        ls \in UNION { [1..n -> Lines] : n \in 0..MaxLines }, b \in BOOLEAN }

\* OllamaService.generate(prompt): the fragments it yields for a backend reply
Generate(reply) ==
    CASE reply.status = "http_error" -> << ErrStatus >>
      [] reply.status = "connect_error" -> << ErrConnect >>
      [] OTHER -> StreamChunks(reply.lines, reply.broken)

\* ------------------------------------------------------------- requests
\* (user_id, session_id) pairs of the inbound requests
Principals ==
    { << Id_a, Id_b_c >>, << Id_a_b, Id_c >>, << Id_a, Id_c >> }

ChatMessages ==
    { Msg_Empty, Msg_Hello, Msg_Ok, Msg_Calendar, Msg_TextMom, Msg_TextOnly,
      Msg_TextLater, Msg_Photos }

UnifiedMessages ==
    { Msg_Empty, Msg_Calendar }

\* a request whose body cannot be parsed carries nothing else
Unparsable(endpoint) ==
    [ endpoint |-> endpoint, body_ok |-> FALSE, user_id |-> Id_a, session_id |-> Id_c,
      message |-> Msg_Empty, access_token |-> TokNone, image |-> ImgNone ]

\* POST /chat with a JSON body, POST /unified_query with a multipart body
Requests ==
    { [ endpoint |-> "chat", body_ok |-> TRUE, user_id |-> p[1], session_id |-> p[2],
        message |-> m, access_token |-> t, image |-> ImgNone ] :
        p \in Principals, m \in ChatMessages, t \in AccessTokens }
    \cup
    { [ endpoint |-> "unified", body_ok |-> TRUE, user_id |-> p[1], session_id |-> p[2],
        message |-> m, access_token |-> t, image |-> i ] :
        p \in Principals, m \in UnifiedMessages, t \in AccessTokens,
        i \in { ImgNone, ImgEmpty, ImgBytes } }
    \cup
    { Unparsable("chat"), Unparsable("unified") }

\* the coroutines of the requests in flight: a request and one that overlaps it
Slots ==
    { 1, 2 }

\* the requests of two clients that share one session key and overlap: no
\* message, an open-ended one and a calendar question without a credential,
\* and the calendar question with one
OverlapRequests ==
    { [ endpoint |-> "chat", body_ok |-> TRUE, user_id |-> p[1], session_id |-> p[2],
        message |-> m, access_token |-> TokNone, image |-> ImgNone ] :
        p \in { << Id_a, Id_b_c >>, << Id_a_b, Id_c >> },
        m \in { Msg_Empty, Msg_Hello, Msg_Calendar } }
    \cup
    { [ endpoint |-> "chat", body_ok |-> TRUE, user_id |-> p[1], session_id |-> p[2],
        message |-> Msg_Calendar, access_token |-> TokValid, image |-> ImgNone ] :
        p \in { << Id_a, Id_b_c >>, << Id_a_b, Id_c >> } }
    \cup
    { [ endpoint |-> "unified", body_ok |-> TRUE, user_id |-> Id_a, session_id |-> Id_c,
        message |-> Msg_Calendar, access_token |-> TokValid, image |-> ImgBytes ] }

\* the requests a behaviour draws from
Universe(u) ==
    IF u = "overlap" THEN OverlapRequests ELSE Requests

\* ----------------------------------------------------------------- state
VARIABLES
    active,     \* the slots that take requests in this behaviour (never changes)
    universe,   \* which requests may arrive in this behaviour (never changes)
    sessions,   \* the global dict sessions: session key -> session record
    now,        \* the wall clock datetime.now() reads
    received,   \* requests that arrived so far
    probes,     \* the results of the health probes made so far, in order
    pc,         \* per request in flight: where its coroutine stands
    req,        \* per request: the inbound request
    intent,     \* per request: intent_result
    health,     \* per request: what its health probe returned
    reply,      \* per request: what the model backend answered to generate
    result,     \* per request: raw_service_result
    chunks,     \* per request: ollama_chunks
    resp,       \* per request: the JSON body returned
    calls,      \* per request: the calls made on its behalf, in order
    manager     \* the OllamaManager of the startup script and the call it runs

vars ==
    << active, universe, sessions, now, received, probes, pc, req, intent, health,
       reply, result, chunks, resp, calls, manager >>

\* session_key = f"{user_id}_{session_id}"
SessionKey(user_id, session_id) ==
    user_id \o Underscore \o session_id

\* every request starts its session afresh
EnsureSession_Fresh(ss, user_id, session_id, t) ==
    LET session_key == SessionKey(user_id, session_id)
        fresh == [ state |-> [ intent_classification |-> NoIntent ], created_at |-> t ]
    IN  [ k \in DOMAIN ss \cup { session_key } |->
            IF k = session_key THEN fresh ELSE ss[k] ]

\* ensure_session(user_id, session_id) on the dict ss at time t
EnsureSession(ss, user_id, session_id, t) ==
    LET session_key == SessionKey(user_id, session_id)
    IN  IF session_key \in DOMAIN ss THEN ss
        ELSE ss @@ (session_key :>
                [ state |-> [ intent_classification |-> NoIntent ], created_at |-> t ])

\* a classification is stored only in a session that holds none yet
StoreIntent_FirstWins(ss, user_id, session_id, it) ==
    IF ss[SessionKey(user_id, session_id)].state.intent_classification = NoIntent
    THEN [ ss EXCEPT ![SessionKey(user_id, session_id)].state.intent_classification = it ]
    ELSE ss

\* session["state"]["intent_classification"] = intent_result
StoreIntent(ss, user_id, session_id, it) ==
    [ ss EXCEPT ![SessionKey(user_id, session_id)].state.intent_classification = it ]

\* the retry budget of the startup script ("30 seconds max wait")
max_retries ==
    30

\* OllamaManager(): the manager with no method running. entry is the method
\* called on it, polls the results of its is_ollama_running() calls in order,
\* waited those made inside wait_for_ollama, log the other calls it made
OllamaManager ==
    [ pc |-> "idle", entry |-> "", polls |-> << >>, waited |-> << >>,
      launched |-> FALSE, returned |-> "none", log |-> << >> ]

\* the state after startup: no session, no request in flight
Started ==
    /\ sessions = << >>
    /\ now = 0
    /\ received = 0
    /\ probes = << >>
    /\ pc = [ r \in Slots |-> "idle" ]
    /\ req = [ r \in Slots |-> Unparsable("chat") ]
    /\ intent = [ r \in Slots |-> NoIntent ]
    /\ health = [ r \in Slots |-> "unknown" ]
    /\ reply = [ r \in Slots |-> NoReply ]
    /\ result = [ r \in Slots |-> Result({ }, "") ]
    /\ chunks = [ r \in Slots |-> << >> ]
    /\ resp = [ r \in Slots |-> NoResponse ]
    /\ calls = [ r \in Slots |-> << >> ]

\* requests arrive one after the other, each after the earlier one was answered
Init ==
    /\ manager = OllamaManager
    /\ active = { 1 }
    /\ universe = "all"
    /\ Started

\* two requests may be in flight at once and interleave at their awaits
InitOverlap ==
    /\ manager = OllamaManager
    /\ active = Slots
    /\ universe = "overlap"
    /\ Started

\* a request arrives and its coroutine is created; a slot is taken again once
\* its earlier request has been answered (or has failed)
Receive(r) ==
    /\ r \in active
    /\ pc[r] \in { "idle", "done", "raised" }
    /\ \A s \in active : s < r => pc[s] \notin { "idle", "done", "raised" }
    /\ received < MaxRequests
    /\ \E q \in Universe(universe) :
        /\ req' = [ req EXCEPT ![r] = q ]
        /\ pc' = [ pc EXCEPT ![r] = q.endpoint ]
    /\ received' = received + 1
    /\ now' = now + 1
    /\ intent' = [ intent EXCEPT ![r] = NoIntent ]
    /\ health' = [ health EXCEPT ![r] = "unknown" ]
    /\ reply' = [ reply EXCEPT ![r] = NoReply ]
    /\ result' = [ result EXCEPT ![r] = Result({ }, "") ]
    /\ chunks' = [ chunks EXCEPT ![r] = << >> ]
    /\ resp' = [ resp EXCEPT ![r] = NoResponse ]
    /\ calls' = [ calls EXCEPT ![r] = << >> ]
    /\ UNCHANGED << manager, active, universe, sessions, probes >>

\* the provenance tag is written with a dash
GoogleSource_Dash(service) ==
    "google-" \o service

\* response_source of a dispatched service
GoogleSource(service) ==
    "google_" \o service

\* a request without a message is sent to the language model
ChatDecision_EmptyToModel(q, it) ==
    CASE it = NoIntent ->
            [ pc |-> "probe", resp |-> NoResponse ]
      [] it.type = "google" /\ ~Truthy(q.access_token) ->
            [ pc |-> "done",
              resp |-> Response(FormatResponse(TxtSignIn(it.service), "auth_required"),
                                "auth_required") ]
      [] it.type = "google" /\ Truthy(q.access_token) /\ it.service \in DOMAIN ServiceHandlers ->
            [ pc |-> "handler", resp |-> NoResponse ]
      [] it.type = "google" /\ Truthy(q.access_token) /\ it.service \notin DOMAIN ServiceHandlers ->
            [ pc |-> "done",
              resp |-> Response(FormatResponse(TxtNotImplemented(it.service),
                                               GoogleSource(it.service)),
                                GoogleSource(it.service)) ]
      [] it.type = "llm" ->
            [ pc |-> "probe", resp |-> NoResponse ]
      [] OTHER ->
            [ pc |-> "done",
              resp |-> Response(FormatResponse(TxtUnknownIntent, "system"), "system") ]

\* handle_chat, lines 704-792 up to the first await: where the coroutine goes
\* next and, when it is finished, the response it returns
ChatDecision(q, it) ==
    CASE it = NoIntent ->
            [ pc |-> "done",
              resp |-> Response(FormatResponse(TxtProvide, "system"), "system") ]
      [] it.type = "google" /\ ~Truthy(q.access_token) ->
            [ pc |-> "done",
              resp |-> Response(FormatResponse(TxtSignIn(it.service), "auth_required"),
                                "auth_required") ]
      [] it.type = "google" /\ Truthy(q.access_token) /\ it.service \in DOMAIN ServiceHandlers ->
            [ pc |-> "handler", resp |-> NoResponse ]
      [] it.type = "google" /\ Truthy(q.access_token) /\ it.service \notin DOMAIN ServiceHandlers ->
            [ pc |-> "done",
              resp |-> Response(FormatResponse(TxtNotImplemented(it.service),
                                               GoogleSource(it.service)),
                                GoogleSource(it.service)) ]
      [] it.type = "llm" ->
            [ pc |-> "probe", resp |-> NoResponse ]
      [] OTHER ->
            [ pc |-> "done",
              resp |-> Response(FormatResponse(TxtUnknownIntent, "system"), "system") ]

\* handle_chat from request.json() to its first await on a collaborator. A
\* unified query that delegates here has had its body read as multipart, so
\* request.json() finds no JSON and raises into handle_unified_query's except.
ChatRoute(r) ==
    LET q == req[r]
        it == IF q.message # << >> THEN Classify(q.message) ELSE NoIntent
        d == ChatDecision(q, it)
        ensured == EnsureSession(sessions, q.user_id, q.session_id, now)
    IN  /\ pc[r] = "chat"
        /\ IF q.endpoint = "chat" /\ q.body_ok
           THEN /\ sessions' = IF it # NoIntent
                               THEN StoreIntent(ensured, q.user_id, q.session_id, it)
                               ELSE ensured
                /\ intent' = [ intent EXCEPT ![r] = it ]
                /\ pc' = [ pc EXCEPT ![r] = d.pc ]
                /\ resp' = [ resp EXCEPT ![r] = d.resp ]
                /\ calls' = [ calls EXCEPT ![r] = @ \o << "request.json", "ensure_session" >>
                                \o (IF it # NoIntent THEN << "classify", "store_intent" >>
                                    ELSE << >>) ]
           ELSE /\ pc' = [ pc EXCEPT ![r] = IF q.endpoint = "unified" THEN "done" ELSE "raised" ]
                /\ resp' = [ resp EXCEPT ![r] = IF q.endpoint = "unified"
                                                THEN Response(TxtUnifiedError, "error")
                                                ELSE NoResponse ]
                /\ calls' = [ calls EXCEPT ![r] = @ \o << "request.json", "exception" >> ]
                /\ UNCHANGED << sessions, intent >>
        /\ UNCHANGED << manager, active, universe, now, received, probes, req, health, reply, result, chunks >>

\* what the awaited handler call can meet: how its API calls end (or that the
\* call raises), the contact search, the scheduler
HandlerEnvs(q, service) ==
    IF service = "sms"
    THEN { [ api |-> a, lookup |-> l, sched |-> s ] :
             a \in { "ok", "raise" },
             l \in (IF ~SmsLooksUp(q.message, q.access_token) THEN { "none" }
                    ELSE IF q.access_token = TokInvalid THEN { "fail" }
                    ELSE LookupOutcomes),
             s \in (IF SmsBranch(q.message) \in { "schedule", "list" }
                    THEN { "ok", "fail" } ELSE { "ok" }) }
    ELSE { [ api |-> a, lookup |-> "none", sched |-> "ok" ] :
             a \in ApiOutcomes(service, q.access_token) \cup { "raise" } }

\* the handler's result in an environment
HandlerResult(q, service, env) ==
    IF service = "sms"
    THEN HandleSms(q.message, q.access_token, env.lookup, env.sched)
    ELSE HandleGoogle(service, env.api)

\* every SMS result is answered with the instruction fields
HandlerResponse_AlwaysInstruction(service, service_result, raised) ==
    IF raised
    THEN Response(FormatResponse(TxtAccessError(service), GoogleSource(service)),
                  GoogleSource(service))
    ELSE IF service = "sms"
    THEN InstructionResponse(FormatServiceResponse(service, service_result),
                             GoogleSource(service), service_result)
    ELSE Response(FormatResponse(FormatServiceResponse(service, service_result),
                                 GoogleSource(service)),
                  GoogleSource(service))

\* handle_chat, lines 734-757 and 794-800: the response once the handler
\* returned service_result, or once the try block raised
HandlerResponse(service, service_result, raised) ==
    IF raised
    THEN Response(FormatResponse(TxtAccessError(service), GoogleSource(service)),
                  GoogleSource(service))
    ELSE IF service = "sms" /\ "instruction" \in service_result.keys
    THEN InstructionResponse(FormatServiceResponse(service, service_result),
                             GoogleSource(service), service_result)
    ELSE Response(FormatResponse(FormatServiceResponse(service, service_result),
                                 GoogleSource(service)),
                  GoogleSource(service))

\* a handler fault is handed on to the language model
AfterHandler_FallToModel(raised) ==
    IF raised THEN "probe" ELSE "done"

\* handle_chat, lines 755-757 and 794-800: after the handler call, failed or
\* not, handle_chat goes straight to the final response
AfterHandler(raised) ==
    "done"

\* the awaited handler returns (or raises) and handle_chat answers
HandlerReturn(r) ==
    /\ pc[r] = "handler"
    /\ \E env \in HandlerEnvs(req[r], intent[r].service) :
        LET service == intent[r].service
            service_result == HandlerResult(req[r], service, env)
            raised == env.api = "raise"
        IN  /\ result' = [ result EXCEPT ![r] = IF raised THEN @ ELSE service_result ]
            /\ resp' = [ resp EXCEPT ![r] = HandlerResponse(service, service_result, raised) ]
            /\ calls' = [ calls EXCEPT ![r] = @ \o << ServiceHandlers[service] >>
                            \o (IF service = "sms" /\ ~raised
                                THEN SmsCalls(req[r].message, req[r].access_token)
                                ELSE << >>)
                            \o (IF /\ service = "sms" /\ ~raised
                                   /\ SmsLooksUp(req[r].message, req[r].access_token)
                                THEN << "contact_" \o env.lookup >>
                                ELSE << >>)
                            \o (IF raised THEN << "exception" >>
                                ELSE << "format_google_service_response" >>) ]
            /\ pc' = [ pc EXCEPT ![r] = AfterHandler(raised) ]
    /\ UNCHANGED << manager, active, universe, sessions, now, received, probes, req, intent, health, reply, chunks >>

\* the probe's result is ignored and generation is always tried
UseGeneration_Always(r, up) ==
    TRUE

\* a degraded verdict is kept: once a probe failed, later messages fall back
UseGeneration_Sticky(r, up) ==
    up /\ \A i \in 1..Len(probes) : probes[i]

\* handle_chat, line 766: whether this message is generated, given the result
\* of its own health probe
UseGeneration(r, up) ==
    up

\* OllamaService.health_check() returns; when it failed handle_chat answers
\* with the rule-based reply
ProbeReturn(r) ==
    /\ pc[r] = "probe"
    /\ \E up \in BOOLEAN :
        /\ probes' = Append(probes, up)
        /\ health' = [ health EXCEPT ![r] = IF up THEN "up" ELSE "down" ]
        /\ IF UseGeneration(r, up)
           THEN /\ pc' = [ pc EXCEPT ![r] = "generate" ]
                /\ calls' = [ calls EXCEPT ![r] = @ \o << "health_check" >> ]
                /\ UNCHANGED resp
           ELSE /\ pc' = [ pc EXCEPT ![r] = "done" ]
                /\ calls' = [ calls EXCEPT ![r] =
                                @ \o << "health_check", "get_fallback_response" >> ]
                /\ resp' = [ resp EXCEPT ![r] =
                                Response(FormatResponse(GetFallbackResponse(req[r].message),
                                                        "assistant"), "assistant") ]
    /\ UNCHANGED << manager, active, universe, sessions, now, received, req, intent, reply, result, chunks >>

\* what the generation call can meet: a reply of the backend, or an exception
\* that escapes the try block of lines 765-777
GenOutcomes ==
    GenReplies \cup { [ status |-> "raise", lines |-> << >>, broken |-> FALSE ] }

\* the reply is built from the fragment received last
GeneratedResponse_LastOnly(ollama_chunks) ==
    Response(FormatResponse(FormatResponse(
                TxtOllama(IF ollama_chunks = << >> THEN ""
                          ELSE ollama_chunks[Len(ollama_chunks)]), "ollama"),
                            "assistant"), "assistant")

\* handle_chat, lines 768-777 and 794-800: the response built from the
\* fragments generate yielded
GeneratedResponse(ollama_chunks) ==
    Response(FormatResponse(FormatResponse(TxtOllama(Join(ollama_chunks)), "ollama"),
                            "assistant"), "assistant")

\* the generation sequence is drained and handle_chat answers
GenerateReturn(r) ==
    /\ pc[r] = "generate"
    /\ \E out \in GenOutcomes :
        /\ reply' = [ reply EXCEPT ![r] = out ]
        /\ chunks' = [ chunks EXCEPT ![r] = IF out.status = "raise" THEN @ ELSE Generate(out) ]
        /\ resp' = [ resp EXCEPT ![r] =
                        IF out.status = "raise"
                        THEN Response(FormatResponse(GetFallbackResponse(req[r].message),
                                                     "assistant"), "assistant")
                        ELSE GeneratedResponse(Generate(out)) ]
        /\ calls' = [ calls EXCEPT ![r] = @ \o << "generate" >>
                        \o (IF out.status = "raise"
                            THEN << "exception", "get_fallback_response" >> ELSE << >>) ]
    /\ pc' = [ pc EXCEPT ![r] = "done" ]
    /\ UNCHANGED << manager, active, universe, sessions, now, received, probes, req, intent, health, result >>

\* handle_unified_query from request.multipart() to its first await on a
\* collaborator
UnifiedRoute(r) ==
    LET q == req[r]
    IN  /\ pc[r] = "unified"
        /\ IF ~q.body_ok
           THEN /\ pc' = [ pc EXCEPT ![r] = "done" ]
                /\ resp' = [ resp EXCEPT ![r] = Response(TxtUnifiedError, "error") ]
                /\ calls' = [ calls EXCEPT ![r] = @ \o << "request.multipart", "exception" >> ]
                /\ UNCHANGED sessions
           ELSE /\ sessions' = EnsureSession(sessions, q.user_id, q.session_id, now)
                /\ calls' = [ calls EXCEPT ![r] = @ \o << "request.multipart", "ensure_session" >> ]
                /\ pc' = [ pc EXCEPT ![r] =
                            IF ~HasImage(q.image) THEN "chat"
                            ELSE IF Truthy(q.access_token) THEN "image" ELSE "done" ]
                /\ resp' = [ resp EXCEPT ![r] =
                            IF HasImage(q.image) /\ ~Truthy(q.access_token)
                            THEN Response(TxtImageSignIn, "auth_required")
                            ELSE NoResponse ]
        /\ UNCHANGED << manager, active, universe, now, received, probes, req, intent, health, reply, result, chunks >>

\* handle_image_processing returns and handle_unified_query answers
ImageReturn(r) ==
    /\ pc[r] = "image"
    /\ \E api \in { "ok", "error", "raise" } :
        /\ result' = [ result EXCEPT ![r] = IF api = "raise" THEN @ ELSE HandleImage(api) ]
        /\ resp' = [ resp EXCEPT ![r] =
                        IF api = "raise" THEN Response(TxtUnifiedError, "error")
                        ELSE Response(FormatServiceResponse("drive", HandleImage(api)),
                                      "image_processing") ]
        /\ calls' = [ calls EXCEPT ![r] = @ \o << "handle_image_processing" >>
                        \o (IF api = "raise" THEN << "exception" >>
                            ELSE << "format_google_service_response" >>) ]
    /\ pc' = [ pc EXCEPT ![r] = "done" ]
    /\ UNCHANGED << manager, active, universe, sessions, now, received, probes, req, intent, health, reply, chunks >>

Next ==
    \E r \in Slots :
        \/ Receive(r)
        \/ ChatRoute(r)
        \/ HandlerReturn(r)
        \/ ProbeReturn(r)
        \/ GenerateReturn(r)
        \/ UnifiedRoute(r)
        \/ ImageReturn(r)

Spec ==
    Init /\ [][Next]_vars

SpecOverlap ==
    InitOverlap /\ [][Next]_vars

\* ------------------------------------------- get_fallback_response alone
\* words of the messages get_fallback_response is applied to: phrases of each
\* category in mixed case, and a word of no category
FallbackWords ==
    << <<"H", "e", "l", "l", "o">>,
       <<"H", "E", "Y">>,
       <<"h", "o", "w", " ", "a", "r", "e", " ", "y", "o", "u">>,
       <<"W", "h", "a", "t", "'", "s", " ", "u", "p">>,
       <<"h", "e", "l", "p">>,
       <<"f", "e", "a", "t", "u", "r", "e", "s">>,
       <<"t", "i", "m", "e">>,
       <<"t", "o", "d", "a", "y">>,
       <<"T", "h", "a", "n", "k", "s">>,
       <<"b", "y", "e">>,
       <<"o", "k">> >>

\* one word, or two words separated by a blank
FallbackMessages ==
    { FallbackWords[i] : i \in 1..Len(FallbackWords) }
    \cup { FallbackWords[i] \o << " " >> \o FallbackWords[j] :
             i, j \in 1..Len(FallbackWords) }

\* the probe of an open-ended message failed and get_fallback_response is
\* about to be called with the message
InitFallback ==
    /\ manager = OllamaManager
    /\ active = { 1 }
    /\ universe = "fallback"
    /\ sessions = << >>
    /\ now = 1
    /\ received = 1
    /\ probes = << FALSE >>
    /\ pc = [ r \in Slots |-> IF r = 1 THEN "fallback" ELSE "idle" ]
    /\ \E m \in FallbackMessages :
        req = [ r \in Slots |->
                  IF r = 1 THEN [ Unparsable("chat") EXCEPT !.body_ok = TRUE, !.message = m ]
                  ELSE Unparsable("chat") ]
    /\ intent = [ r \in Slots |-> NoIntent ]
    /\ health = [ r \in Slots |-> IF r = 1 THEN "down" ELSE "unknown" ]
    /\ reply = [ r \in Slots |-> NoReply ]
    /\ result = [ r \in Slots |-> Result({ }, "") ]
    /\ chunks = [ r \in Slots |-> << >> ]
    /\ resp = [ r \in Slots |-> NoResponse ]
    /\ calls = [ r \in Slots |-> << >> ]

\* handle_chat, lines 778-779 and 794-800: get_fallback_response(message)
\* returns and handle_chat answers
FallbackReturn(r) ==
    /\ pc[r] = "fallback"
    /\ resp' = [ resp EXCEPT ![r] =
                    Response(FormatResponse(GetFallbackResponse(req[r].message),
                                            "assistant"), "assistant") ]
    /\ calls' = [ calls EXCEPT ![r] = @ \o << "get_fallback_response" >> ]
    /\ pc' = [ pc EXCEPT ![r] = "done" ]
    /\ UNCHANGED << manager, active, universe, sessions, now, received, probes, req, intent,
                    health, reply, result, chunks >>

NextFallback ==
    \E r \in Slots : FallbackReturn(r)

SpecFallback ==
    InitFallback /\ [][NextFallback]_vars

\* ------------------------------------------------------- handle_sms alone
\* send and schedule commands in every combination of a verb, a recipient, a
\* connector, a body and a scheduling cue, and the management commands
SmsMessages ==
    LET SmsVerbs ==
            { <<"T", "e", "x", "t", " ">>, <<"s", "e", "n", "d", " ", "t", "e", "x", "t", " ", "t", "o", " ">> }
        SmsRecipients ==
            { <<"M", "o", "m">>, <<"5", "5", "5">>, <<"m", "o", "m", " ", "2">> }
        SmsConnectors ==
            { <<" ", "s", "a", "y", "i", "n", "g", " ">>, <<" ", "t", "o", " ", "s", "a", "y", " ">>, <<" ">> }
        SmsBodies ==
            { <<"H", "i">>, <<"\"", "B", "e", " ", "l", "a", "t", "e", "\"">> }
        SmsCues ==
            { << >>, <<" ", "t", "o", "m", "o", "r", "r", "o", "w">> }
    IN  { v \o n \o c \o b \o q :
            v \in SmsVerbs, n \in SmsRecipients, c \in SmsConnectors,
            b \in SmsBodies, q \in SmsCues }
        \cup { <<"l", "i", "s", "t", " ", "s", "c", "h", "e", "d", "u", "l", "e", "d", " ", "t", "e", "x", "t", "s">>, <<"c", "a", "n", "c", "e", "l", " ", "s", "m", "s", " ", "t", "e", "x", "t">>, <<"t", "e", "x", "t">> }

\* handle_chat has classified a message as sms, found a credential and is
\* about to await handle_sms(message, access_token)
InitSms ==
    /\ manager = OllamaManager
    /\ active = { 1 }
    /\ universe = "sms"
    /\ now = 1
    /\ received = 1
    /\ probes = << >>
    /\ pc = [ r \in Slots |-> IF r = 1 THEN "handler" ELSE "idle" ]
    /\ \E m \in SmsMessages, t \in { TokValid, TokInvalid } :
        /\ Classify(m) = [ type |-> "google", service |-> "sms" ]
        /\ req = [ r \in Slots |->
                     IF r = 1
                     THEN [ Unparsable("chat") EXCEPT !.body_ok = TRUE, !.message = m,
                                                      !.access_token = t ]
                     ELSE Unparsable("chat") ]
        /\ sessions = StoreIntent(EnsureSession(<< >>, Id_a, Id_c, 1), Id_a, Id_c, Classify(m))
        /\ intent = [ r \in Slots |-> IF r = 1 THEN Classify(m) ELSE NoIntent ]
    /\ health = [ r \in Slots |-> "unknown" ]
    /\ reply = [ r \in Slots |-> NoReply ]
    /\ result = [ r \in Slots |-> Result({ }, "") ]
    /\ chunks = [ r \in Slots |-> << >> ]
    /\ resp = [ r \in Slots |-> NoResponse ]
    /\ calls = [ r \in Slots |->
                   IF r = 1 THEN << "request.json", "ensure_session", "classify", "store_intent" >>
                   ELSE << >> ]

NextSms ==
    \E r \in Slots : HandlerReturn(r)

SpecSms ==
    InitSms /\ [][NextSms]_vars

\* ------------------------------------------- handle_google_calendar alone
\* the month names in the order the code tests them, with month.title()
MonthNames ==
    << [ phrase |-> <<"j", "a", "n", "u", "a", "r", "y">>, token |-> "January" ],
       [ phrase |-> <<"f", "e", "b", "r", "u", "a", "r", "y">>, token |-> "February" ],
       [ phrase |-> <<"m", "a", "r", "c", "h">>, token |-> "March" ],
       [ phrase |-> <<"a", "p", "r", "i", "l">>, token |-> "April" ],
       [ phrase |-> <<"m", "a", "y">>, token |-> "May" ],
       [ phrase |-> <<"j", "u", "n", "e">>, token |-> "June" ],
       [ phrase |-> <<"j", "u", "l", "y">>, token |-> "July" ],
       [ phrase |-> <<"a", "u", "g", "u", "s", "t">>, token |-> "August" ],
       [ phrase |-> <<"s", "e", "p", "t", "e", "m", "b", "e", "r">>, token |-> "September" ],
       [ phrase |-> <<"o", "c", "t", "o", "b", "e", "r">>, token |-> "October" ],
       [ phrase |-> <<"n", "o", "v", "e", "m", "b", "e", "r">>, token |-> "November" ],
       [ phrase |-> <<"d", "e", "c", "e", "m", "b", "e", "r">>, token |-> "December" ] >>

\* the weekday names in the order the code tests them, with day.title()
DayNames ==
    << [ phrase |-> <<"m", "o", "n", "d", "a", "y">>, token |-> "Monday" ],
       [ phrase |-> <<"t", "u", "e", "s", "d", "a", "y">>, token |-> "Tuesday" ],
       [ phrase |-> <<"w", "e", "d", "n", "e", "s", "d", "a", "y">>, token |-> "Wednesday" ],
       [ phrase |-> <<"t", "h", "u", "r", "s", "d", "a", "y">>, token |-> "Thursday" ],
       [ phrase |-> <<"f", "r", "i", "d", "a", "y">>, token |-> "Friday" ],
       [ phrase |-> <<"s", "a", "t", "u", "r", "d", "a", "y">>, token |-> "Saturday" ],
       [ phrase |-> <<"s", "u", "n", "d", "a", "y">>, token |-> "Sunday" ] >>

\* the first entry of a name table whose phrase occurs in message_lower
FirstNamed(names, message_lower) ==
    names[CHOOSE i \in 1..Len(names) :
            /\ Contains(message_lower, names[i].phrase)
            /\ \A j \in 1..(i - 1) : ~Contains(message_lower, names[j].phrase)]

AnyNamed(names, message_lower) ==
    \E i \in 1..Len(names) : Contains(message_lower, names[i].phrase)

\* tomorrow is looked for before today
TimeRange_TomorrowFirst(message) ==
    LET message_lower == Lower(message)
        today == <<"t", "o", "d", "a", "y">>
        tomorrow == <<"t", "o", "m", "o", "r", "r", "o", "w">>
        this_week == <<"t", "h", "i", "s", " ", "w", "e", "e", "k">>
        next_week == <<"n", "e", "x", "t", " ", "w", "e", "e", "k">>
    IN  IF Contains(message_lower, tomorrow) THEN "tomorrow"
        ELSE IF Contains(message_lower, today) THEN "today"
        ELSE IF Contains(message_lower, this_week) THEN "this week"
        ELSE IF Contains(message_lower, next_week) THEN "next week"
        ELSE IF AnyNamed(MonthNames, message_lower)
             THEN FirstNamed(MonthNames, message_lower).token
        ELSE IF AnyNamed(DayNames, message_lower)
             THEN FirstNamed(DayNames, message_lower).token
        ELSE "upcoming"

\* handle_google_calendar, lines 131-155: the time range parsed from the message
TimeRange(message) ==
    LET message_lower == Lower(message)
        today == <<"t", "o", "d", "a", "y">>
        tomorrow == <<"t", "o", "m", "o", "r", "r", "o", "w">>
        this_week == <<"t", "h", "i", "s", " ", "w", "e", "e", "k">>
        next_week == <<"n", "e", "x", "t", " ", "w", "e", "e", "k">>
    IN  IF Contains(message_lower, today) THEN "today"
        ELSE IF Contains(message_lower, tomorrow) THEN "tomorrow"
        ELSE IF Contains(message_lower, this_week) THEN "this week"
        ELSE IF Contains(message_lower, next_week) THEN "next week"
        ELSE IF AnyNamed(MonthNames, message_lower)
             THEN FirstNamed(MonthNames, message_lower).token
        ELSE IF AnyNamed(DayNames, message_lower)
             THEN FirstNamed(DayNames, message_lower).token
        ELSE "upcoming"

\* handle_google_calendar, lines 158-170: which function the message is handed to
CalendarCommand(message) ==
    LET message_lower == Lower(message)
        invite == << <<"i", "n", "v", "i", "t", "e">>, <<"a", "t", "t", "e", "n", "d", "e", "e", "s">> >>
        meeting == <<"m", "e", "e", "t", "i", "n", "g">>
        create == << <<"c", "r", "e", "a", "t", "e", " ", "e", "v", "e", "n", "t">>, <<"s", "c", "h", "e", "d", "u", "l", "e">>, <<"a", "d", "d", " ", "e", "v", "e", "n", "t">>, <<"n", "e", "w", " ", "e", "v", "e", "n", "t">> >>
        delete == << <<"d", "e", "l", "e", "t", "e">>, <<"c", "a", "n", "c", "e", "l">>, <<"r", "e", "m", "o", "v", "e">> >>
        search == << <<"s", "e", "a", "r", "c", "h">>, <<"f", "i", "n", "d">> >>
        update == << <<"u", "p", "d", "a", "t", "e">>, <<"m", "o", "d", "i", "f", "y">>, <<"c", "h", "a", "n", "g", "e">>, <<"e", "d", "i", "t">> >>
    IN  IF ContainsAny(message_lower, invite) /\ Contains(message_lower, meeting)
        THEN "handle_calendar_invite"
        ELSE IF ContainsAny(message_lower, create) THEN "handle_calendar_create"
        ELSE IF ContainsAny(message_lower, delete) THEN "handle_calendar_delete"
        ELSE IF ContainsAny(message_lower, search) THEN "handle_calendar_search"
        ELSE IF ContainsAny(message_lower, update) THEN "handle_calendar_update"
        ELSE "list_calendar_events"

\* seconds in a day; datetime values are seconds since a Monday 00:00:00
DaySeconds ==
    86400

\* list_calendar_events, lines 178-211: time_min and time_max for a token at
\* the time utcnow, to the second
ListWindow(time_range, utcnow) ==
    LET \* x.replace(hour=0, minute=0, second=0, microsecond=0)
        StartOfDay(t) == t - (t % DaySeconds)
        \* x.replace(hour=23, minute=59, second=59, microsecond=999999)
        EndOfDay(t) == StartOfDay(t) + DaySeconds - 1
        \* now.weekday(): Monday is 0
        weekday == (utcnow \div DaySeconds) % 7
        \* ['Monday', ..., 'Sunday'].index(time_range)
        target_weekday == (CHOOSE i \in 1..Len(DayNames) : DayNames[i].token = time_range) - 1
    IN  IF time_range = "today"
        THEN [ time_min |-> StartOfDay(utcnow), time_max |-> EndOfDay(utcnow) ]
        ELSE IF time_range = "tomorrow"
        THEN [ time_min |-> StartOfDay(utcnow + DaySeconds),
               time_max |-> EndOfDay(utcnow + DaySeconds) ]
        ELSE IF time_range = "this week"
        THEN LET start_of_week == utcnow - weekday * DaySeconds
             IN  [ time_min |-> StartOfDay(start_of_week),
                   time_max |-> EndOfDay(start_of_week + 6 * DaySeconds) ]
        ELSE IF time_range = "next week"
        THEN LET start_of_next_week == utcnow - weekday * DaySeconds + 7 * DaySeconds
             IN  [ time_min |-> StartOfDay(start_of_next_week),
                   time_max |-> EndOfDay(start_of_next_week + 6 * DaySeconds) ]
        ELSE IF \E i \in 1..Len(DayNames) : DayNames[i].token = time_range
        THEN LET diff == target_weekday - weekday
                 days_ahead == IF diff <= 0 THEN diff + 7 ELSE diff
                 target_date == utcnow + days_ahead * DaySeconds
             IN  [ time_min |-> StartOfDay(target_date), time_max |-> EndOfDay(target_date) ]
        ELSE [ time_min |-> utcnow, time_max |-> utcnow + 30 * DaySeconds ]

\* handle_google_calendar(message, access_token) at the time utcnow when the
\* API calls succeed: the listing with the window it asked for, or the result
\* of a calendar command; time_range is the range parsed on lines 131-155
HandleGoogleCalendar(message, utcnow) ==
    IF CalendarCommand(message) = "list_calendar_events"
    THEN Result({ "events", "time_range" }, "calendar")
         @@ [ time_range |-> TimeRange(message),
              window |-> ListWindow(TimeRange(message), utcnow) ]
    ELSE Result({ "action" }, "calendar")
         @@ [ time_range |-> TimeRange(message) ]

\* the calendar questions: "calendar" followed by one or two words, which are
\* range phrases in mixed case and a command
CalendarMessages ==
    LET words ==
            << <<"t", "o", "d", "a", "y">>,
               <<"T", "o", "m", "o", "r", "r", "o", "w">>,
               <<"t", "h", "i", "s", " ", "w", "e", "e", "k">>,
               <<"N", "E", "X", "T", " ", "W", "E", "E", "K">>,
               <<"i", "n", " ", "m", "a", "y">>,
               <<"M", "a", "r", "c", "h">>,
               <<"f", "r", "i", "d", "a", "y">>,
               <<"S", "u", "n", "d", "a", "y">>,
               <<"f", "i", "n", "d">> >>
    IN  { KW_calendar \o << " " >> \o words[i] : i \in 1..Len(words) }
        \cup { KW_calendar \o << " " >> \o words[i] \o << " " >> \o words[j] :
                 i, j \in 1..Len(words) }
        \cup { KW_calendar }

\* the clock readings: each weekday of one week, at three times of day
ClockReadings ==
    { d * DaySeconds + t : d \in 0..6, t \in { 0, 50000, 86399 } }

\* handle_chat has classified a message as calendar, found a credential and is
\* about to await handle_google_calendar(message, access_token)
InitCalendar ==
    /\ manager = OllamaManager
    /\ active = { 1 }
    /\ universe = "calendar"
    /\ now \in ClockReadings
    /\ received = 1
    /\ probes = << >>
    /\ pc = [ r \in Slots |-> IF r = 1 THEN "calendar" ELSE "idle" ]
    /\ \E m \in CalendarMessages :
        /\ Classify(m) = [ type |-> "google", service |-> "calendar" ]
        /\ req = [ r \in Slots |->
                     IF r = 1
                     THEN [ Unparsable("chat") EXCEPT !.body_ok = TRUE, !.message = m,
                                                      !.access_token = TokValid ]
                     ELSE Unparsable("chat") ]
        /\ sessions = StoreIntent(EnsureSession(<< >>, Id_a, Id_c, now), Id_a, Id_c, Classify(m))
        /\ intent = [ r \in Slots |-> IF r = 1 THEN Classify(m) ELSE NoIntent ]
    /\ health = [ r \in Slots |-> "unknown" ]
    /\ reply = [ r \in Slots |-> NoReply ]
    /\ result = [ r \in Slots |-> Result({ }, "") ]
    /\ chunks = [ r \in Slots |-> << >> ]
    /\ resp = [ r \in Slots |-> NoResponse ]
    /\ calls = [ r \in Slots |->
                   IF r = 1 THEN << "request.json", "ensure_session", "classify", "store_intent" >>
                   ELSE << >> ]

\* handle_google_calendar returns its listing (or the command's result) and
\* handle_chat answers
CalendarReturn(r) ==
    /\ pc[r] = "calendar"
    /\ LET service_result == HandleGoogleCalendar(req[r].message, now)
       IN  /\ result' = [ result EXCEPT ![r] = service_result ]
           /\ resp' = [ resp EXCEPT ![r] = HandlerResponse("calendar", service_result, FALSE) ]
           /\ calls' = [ calls EXCEPT ![r] =
                           @ \o << "handle_google_calendar", CalendarCommand(req[r].message),
                                   "format_google_service_response" >> ]
    /\ pc' = [ pc EXCEPT ![r] = "done" ]
    /\ UNCHANGED << manager, active, universe, sessions, now, received, probes, req, intent,
                    health, reply, chunks >>

NextCalendar ==
    \E r \in Slots : CalendarReturn(r)

SpecCalendar ==
    InitCalendar /\ [][NextCalendar]_vars

\* ------------------------------ document, spreadsheet and form creation
\* str.title(): a letter that follows a letter is lowercased, any other letter
\* is uppercased
TitleCase(s) ==
    LET IsLetter(c) == \E i \in 1..Len(UpperCase) : c = UpperCase[i] \/ c = LowerCase[i]
        UpperChar(c) ==
            IF \E i \in 1..Len(LowerCase) : LowerCase[i] = c
            THEN UpperCase[CHOOSE i \in 1..Len(LowerCase) : LowerCase[i] = c]
            ELSE c
    IN  [ i \in 1..Len(s) |->
            IF i > 1 /\ IsLetter(s[i - 1]) THEN LowerChar(s[i]) ELSE UpperChar(s[i]) ]

\* parts = message.split(marker); if len(parts) > 1: title = parts[1].strip().title()
SplitTitle(message, marker, title) ==
    LET parts == Split(message, marker)
    IN  IF Len(parts) > 1 THEN TitleCase(Strip(parts[2])) ELSE title

\* the branch on the noun (main.py 349-360, 415-424): what follows the noun in
\* message_lower, without the first of the leading words it starts with
NounTitle(message_lower, noun, words, title) ==
    LET parts == Split(message_lower, noun)
    IN  IF Len(parts) > 1 /\ Strip(parts[2]) # << >>
        THEN LET stripped == Strip(parts[2])
                 hits == { i \in 1..Len(words) : StartsWith(stripped, words[i]) }
                 word == words[CHOOSE i \in hits : \A j \in hits : i <= j]
                 potential_title ==
                     IF hits = { } THEN stripped
                     ELSE Strip(SubSeq(stripped, Len(word) + 1, Len(stripped)))
             IN  IF potential_title # << >> THEN TitleCase(potential_title) ELSE title
        ELSE title

\* handle_google_docs, lines 331-360
DocsTitle(message) ==
    LET message_lower == Lower(message)
        title == <<"N", "e", "w", " ", "D", "o", "c", "u", "m", "e", "n", "t">>
    IN  IF Contains(message_lower, <<"a", "b", "o", "u", "t">>) THEN SplitTitle(message, <<"a", "b", "o", "u", "t">>, title)
        ELSE IF Contains(message_lower, <<"c", "a", "l", "l", "e", "d">>) THEN SplitTitle(message, <<"c", "a", "l", "l", "e", "d">>, title)
        ELSE IF Contains(message_lower, <<"t", "i", "t", "l", "e", "d">>) THEN SplitTitle(message, <<"t", "i", "t", "l", "e", "d">>, title)
        ELSE IF Contains(message_lower, KW_docs)
        THEN NounTitle(message_lower, KW_docs, << <<"f", "o", "r">>, <<"a", "b", "o", "u", "t">>, <<"o", "n">>, <<"w", "i", "t", "h">> >>, title)
        ELSE title

\* handle_google_sheets, lines 404-424
SheetsTitle(message) ==
    LET message_lower == Lower(message)
        title == <<"N", "e", "w", " ", "S", "p", "r", "e", "a", "d", "s", "h", "e", "e", "t">>
    IN  IF Contains(message_lower, <<"f", "o", "r">>) THEN SplitTitle(message, <<"f", "o", "r">>, title)
        ELSE IF Contains(message_lower, <<"c", "a", "l", "l", "e", "d">>) THEN SplitTitle(message, <<"c", "a", "l", "l", "e", "d">>, title)
        ELSE IF Contains(message_lower, KW_sheets)
        THEN NounTitle(message_lower, KW_sheets,
                       << <<"f", "o", "r">>, <<"a", "b", "o", "u", "t">>, <<"t", "o", " ", "t", "r", "a", "c", "k">>, <<"t", "o", " ", "m", "a", "n", "a", "g", "e">> >>, title)
        ELSE title

\* handle_google_forms, lines 483-500
FormsTitle(message) ==
    LET message_lower == Lower(message)
        title == <<"N", "e", "w", " ", "F", "o", "r", "m">>
    IN  IF Contains(message_lower, <<"f", "o", "r">>) THEN SplitTitle(message, <<"f", "o", "r">>, title)
        ELSE IF Contains(message_lower, <<"c", "a", "l", "l", "e", "d">>) THEN SplitTitle(message, <<"c", "a", "l", "l", "e", "d">>, title)
        ELSE IF Contains(message_lower, <<"a", "b", "o", "u", "t">>) THEN SplitTitle(message, <<"a", "b", "o", "u", "t">>, title)
        ELSE title

\* handle_google_docs / _sheets / _forms when the API calls succeed: the file
\* is created with the extracted title, and the API returns that title
HandleCreate(service, message) ==
    LET message_lower == Lower(message)
    IN  IF Contains(message_lower, <<"c", "r", "e", "a", "t", "e">>) \/ Contains(message_lower, <<"n", "e", "w">>)
        THEN IF service = "docs"
             THEN Result({ "action", "document_created", "document_id", "document_title",
                           "response", "next_step" }, "create_document")
                  @@ [ title |-> DocsTitle(message) ]
             ELSE IF service = "sheets"
             THEN Result({ "action", "spreadsheet_created", "spreadsheet_id",
                           "spreadsheet_title", "response", "next_step" }, "create_spreadsheet")
                  @@ [ title |-> SheetsTitle(message) ]
             ELSE Result({ "action", "form_created", "form_id", "form_title",
                           "response", "next_step" }, "create_form")
                  @@ [ title |-> FormsTitle(message) ]
        ELSE IF service = "sheets"
                /\ (Contains(message_lower, <<"u", "p", "d", "a", "t", "e">>) \/ Contains(message_lower, <<"w", "r", "i", "t", "e">>))
        THEN Result({ "action" }, "update_sheet")
        ELSE Result({ "action", "response" },
                    IF service = "docs" THEN "list_documents"
                    ELSE IF service = "sheets" THEN "list_spreadsheets" ELSE "list_forms")

\* requests to create a document, a spreadsheet or a form: an opening, the
\* noun and what follows it, and one request that creates nothing
CreateMessages ==
    LET openings == { <<"c", "r", "e", "a", "t", "e", " ", "a", " ">>, <<"M", "a", "k", "e", " ", "a", " ", "n", "e", "w", " ">>, <<"p", "l", "e", "a", "s", "e", " ", "c", "r", "e", "a", "t", "e", " ", "t", "h", "e", " ">> }
        docs == << << >>,
                   <<" ", "c", "a", "l", "l", "e", "d", " ", "B", "u", "d", "g", "e", "t", " ", "P", "l", "a", "n">>,
                   <<" ", "C", "A", "L", "L", "E", "D", " ", "B", "u", "d", "g", "e", "t", " ", "P", "l", "a", "n">>,
                   <<" ", "a", "b", "o", "u", "t", " ", "q", "3", " ", "s", "a", "l", "e", "s">>,
                   <<" ", "A", "b", "o", "u", "t", " ", "q", "3", " ", "s", "a", "l", "e", "s">>,
                   <<" ", "t", "i", "t", "l", "e", "d", " ", "n", "o", "t", "e", "s">>,
                   <<" ", "c", "a", "l", "l", "e", "d", " ", "a", "l", "l", " ", "a", "b", "o", "u", "t", " ", "c", "a", "t", "s">>,
                   <<" ", "b", "u", "d", "g", "e", "t", " ", "p", "l", "a", "n">>,
                   <<" ", "f", "o", "r", " ", "t", "h", "e", " ", "t", "e", "a", "m">> >>
        sheets == << << >>,
                     <<" ", "f", "o", "r", " ", "e", "x", "p", "e", "n", "s", "e", "s">>,
                     <<" ", "F", "O", "R", " ", "e", "x", "p", "e", "n", "s", "e", "s">>,
                     <<" ", "c", "a", "l", "l", "e", "d", " ", "B", "u", "d", "g", "e", "t", " ", "P", "l", "a", "n">>,
                     <<" ", "C", "a", "l", "l", "e", "d", " ", "B", "u", "d", "g", "e", "t", " ", "P", "l", "a", "n">>,
                     <<" ", "t", "o", " ", "t", "r", "a", "c", "k", " ", "e", "x", "p", "e", "n", "s", "e", "s">>,
                     <<" ", "a", "b", "o", "u", "t", " ", "p", "l", "a", "n", "t", "s">> >>
        forms == << << >>,
                    <<" ", "f", "o", "r", " ", "f", "e", "e", "d", "b", "a", "c", "k">>,
                    <<" ", "c", "a", "l", "l", "e", "d", " ", "S", "u", "r", "v", "e", "y">>,
                    <<" ", "C", "A", "L", "L", "E", "D", " ", "S", "u", "r", "v", "e", "y">>,
                    <<" ", "a", "b", "o", "u", "t", " ", "l", "u", "n", "c", "h">> >>
        tails(noun, ts) == { o \o noun \o ts[i] : o \in openings, i \in 1..Len(ts) }
    IN  tails(KW_docs, docs) \cup tails(KW_sheets, sheets) \cup tails(KW_forms, forms)
        \cup { <<"l", "i", "s", "t", " ", "m", "y", " ">> \o KW_docs \o << "s" >> }

\* handle_chat has classified a message as docs, sheets or forms, found a
\* credential and is about to await the handler
InitTitles ==
    /\ manager = OllamaManager
    /\ active = { 1 }
    /\ universe = "titles"
    /\ now = 0
    /\ received = 1
    /\ probes = << >>
    /\ pc = [ r \in Slots |-> IF r = 1 THEN "create" ELSE "idle" ]
    /\ \E m \in CreateMessages :
        /\ Classify(m).service \in { "docs", "sheets", "forms" }
        /\ req = [ r \in Slots |->
                     IF r = 1
                     THEN [ Unparsable("chat") EXCEPT !.body_ok = TRUE, !.message = m,
                                                      !.access_token = TokValid ]
                     ELSE Unparsable("chat") ]
        /\ sessions = StoreIntent(EnsureSession(<< >>, Id_a, Id_c, now), Id_a, Id_c, Classify(m))
        /\ intent = [ r \in Slots |-> IF r = 1 THEN Classify(m) ELSE NoIntent ]
    /\ health = [ r \in Slots |-> "unknown" ]
    /\ reply = [ r \in Slots |-> NoReply ]
    /\ result = [ r \in Slots |-> Result({ }, "") ]
    /\ chunks = [ r \in Slots |-> << >> ]
    /\ resp = [ r \in Slots |-> NoResponse ]
    /\ calls = [ r \in Slots |->
                   IF r = 1 THEN << "request.json", "ensure_session", "classify", "store_intent" >>
                   ELSE << >> ]

\* the handler returns what it created (or listed) and handle_chat answers
CreateReturn(r) ==
    /\ pc[r] = "create"
    /\ LET service_result == HandleCreate(intent[r].service, req[r].message)
       IN  /\ result' = [ result EXCEPT ![r] = service_result ]
           /\ resp' = [ resp EXCEPT ![r] =
                          HandlerResponse(intent[r].service, service_result, FALSE) ]
           /\ calls' = [ calls EXCEPT ![r] =
                           @ \o << "handle_google_" \o intent[r].service,
                                   "format_google_service_response" >> ]
    /\ pc' = [ pc EXCEPT ![r] = "done" ]
    /\ UNCHANGED << manager, active, universe, sessions, now, received, probes, req, intent,
                    health, reply, chunks >>

NextTitles ==
    \E r \in Slots : CreateReturn(r)

SpecTitles ==
    InitTitles /\ [][NextTitles]_vars

\* ------------------------------------------------ the startup script
\* the loop guard lets one more iteration through
WaitForOllamaStep_OneMore(i, responding) ==
    IF responding THEN [ pc |-> "returned", returned |-> "True" ]
    ELSE IF i + 1 <= max_retries THEN [ pc |-> "wait_for_ollama", returned |-> "none" ]
    ELSE [ pc |-> "returned", returned |-> "False" ]

\* wait_for_ollama: iteration i of `for i in range(self.max_retries)` with the
\* result of its is_ollama_running(): return True, go on, or leave the loop
\* and return False
WaitForOllamaStep(i, responding) ==
    IF responding THEN [ pc |-> "returned", returned |-> "True" ]
    ELSE IF i + 1 < max_retries THEN [ pc |-> "wait_for_ollama", returned |-> "none" ]
    ELSE [ pc |-> "returned", returned |-> "False" ]

\* the startup script runs before the server takes requests: main() calls
\* ensure_ollama_ready; wait_for_ollama is also started on its own
InitStartup ==
    /\ active = { }
    /\ universe = "startup"
    /\ Started
    /\ \E entry \in { "ensure_ollama_ready", "wait_for_ollama" } :
        manager = [ OllamaManager EXCEPT !.pc = entry, !.entry = entry ]

\* ensure_ollama_ready, lines 114-118: the first is_ollama_running()
EnsureCheck ==
    /\ manager.pc = "ensure_ollama_ready"
    /\ \E responding \in BOOLEAN :
        manager' =
            IF responding
            THEN [ manager EXCEPT !.polls = Append(@, TRUE),
                                  !.log = Append(@, "ensure_model_exists"),
                                  !.pc = "returned", !.returned = "True" ]
            ELSE [ manager EXCEPT !.polls = Append(@, FALSE), !.pc = "start_ollama" ]
    /\ UNCHANGED << active, universe, sessions, now, received, probes, pc, req, intent,
                    health, reply, result, chunks, resp, calls >>

\* ensure_ollama_ready, lines 121-137, with start_ollama: ollama is not
\* installed, or starting it raises, or `ollama serve` is launched and polled
\* once after two seconds; wait_for_ollama is entered only if start_ollama
\* returned True
StartOllama ==
    /\ manager.pc = "start_ollama"
    /\ \E outcome \in { "not_installed", "raises", "launched" }, responding \in BOOLEAN :
        /\ outcome # "launched" => ~responding
        /\ manager' =
            IF outcome = "not_installed"
            THEN [ manager EXCEPT !.log = @ \o << "which" >>,
                                  !.pc = "returned", !.returned = "False" ]
            ELSE IF outcome = "raises"
            THEN [ manager EXCEPT !.log = @ \o << "which", "Popen", "exception" >>,
                                  !.pc = "returned", !.returned = "False" ]
            ELSE [ manager EXCEPT !.log = @ \o << "which", "Popen", "sleep" >>,
                                  !.launched = TRUE,
                                  !.polls = Append(@, responding),
                                  !.pc = IF responding THEN "wait_for_ollama" ELSE "returned",
                                  !.returned = IF responding THEN "none" ELSE "False" ]
    /\ UNCHANGED << active, universe, sessions, now, received, probes, pc, req, intent,
                    health, reply, result, chunks, resp, calls >>

\* one iteration of wait_for_ollama; when it returns inside
\* ensure_ollama_ready, that returns the same value (after
\* ensure_model_exists when the value is True)
WaitPoll ==
    /\ manager.pc = "wait_for_ollama"
    /\ \E responding \in BOOLEAN :
        LET step == WaitForOllamaStep(Len(manager.waited), responding)
        IN  manager' =
                [ manager EXCEPT
                    !.polls = Append(@, responding),
                    !.waited = Append(@, responding),
                    !.log = @ \o (IF ~responding THEN << "sleep" >>
                                  ELSE IF manager.entry = "ensure_ollama_ready"
                                  THEN << "ensure_model_exists" >> ELSE << >>),
                    !.pc = step.pc,
                    !.returned = step.returned ]
    /\ UNCHANGED << active, universe, sessions, now, received, probes, pc, req, intent,
                    health, reply, result, chunks, resp, calls >>

NextStartup ==
    \/ EnsureCheck
    \/ StartOllama
    \/ WaitPoll

\* every poll ends (requests.get has a timeout) and every sleep ends, so the
\* script keeps taking steps until it returns
SpecStartup ==
    InitStartup /\ [][NextStartup]_vars /\ WF_vars(NextStartup)

\* ------------------------------------------------------- claim vocabulary
\* the request in slot r has been answered
Answered(r) ==
    pc[r] = "done"

\* the request in slot r is a well-formed chat message classified as a service
Structured(r) ==
    /\ req[r].endpoint = "chat" /\ req[r].body_ok
    /\ req[r].message # << >>
    /\ Classify(req[r].message).type = "google"

\* the request in slot r is a well-formed chat message classified as open-ended
OpenEnded(r) ==
    /\ req[r].endpoint = "chat" /\ req[r].body_ok
    /\ req[r].message # << >>
    /\ Classify(req[r].message).type = "llm"

\* the request in slot r carries no credential: none at all, or an empty one
NoCredential(r) ==
    req[r].access_token \in { TokNone, TokEmpty }

HandlerNames ==
    { ServiceHandlers[s] : s \in DOMAIN ServiceHandlers }

\* how many service handlers were invoked for the request in slot r
HandlerCount(r) ==
    Cardinality({ i \in 1..Len(calls[r]) : calls[r][i] \in HandlerNames })

\* the response carries exactly response and source
Plain(r) ==
    resp[r].keys = { "response", "source" }

FallbackCategories ==
    { "greeting", "status", "help", "datetime", "thanks", "farewell", "generic" }

\* ----------------------------------------------------------------- C1
\* C1: a structured-service chat message without a credential is answered with
\* source auth_required by the sign-in sentence naming the service, and no
\* service handler is invoked for it; a unified query with an image and no
\* credential is answered with source auth_required and image processing is
\* never invoked.
C1_AuthGate ==
    \A r \in Slots :
        /\ (Structured(r) /\ NoCredential(r) /\ pc[r] \notin { "idle", "chat" })
            => /\ Answered(r)
               /\ Plain(r)
               /\ resp[r].source = "auth_required"
               /\ resp[r].response.k = "sign_in"
               /\ resp[r].response.service = ServiceTitle(Classify(req[r].message).service)
               /\ HandlerCount(r) = 0
        /\ (/\ req[r].endpoint = "unified" /\ req[r].body_ok
            /\ req[r].image = ImgBytes /\ NoCredential(r)
            /\ pc[r] \notin { "idle", "unified" })
            => /\ Answered(r)
               /\ Plain(r)
               /\ resp[r].source = "auth_required"
               /\ resp[r].response.k = "image_sign_in"
               /\ Count(calls[r], "handle_image_processing") = 0

\* a messaging request with an empty access_token string has been turned away
C1_Witness ==
    \E r \in Slots :
        /\ Answered(r) /\ Structured(r)
        /\ req[r].access_token = TokEmpty
        /\ Classify(req[r].message).service = "sms"
        /\ resp[r].source = "auth_required"

\* ----------------------------------------------------------------- C2
\* C2: the router never throws past its own boundary: no request ends with an
\* exception leaving handle_chat or handle_unified_query, and a request whose
\* body could not be parsed is answered with the generic error response of
\* source error.
C2_NeverThrows ==
    \A r \in Slots :
        /\ pc[r] # "raised"
        /\ (~req[r].body_ok /\ pc[r] \notin { "idle", "chat", "unified" })
            => (Answered(r) /\ Plain(r) /\ resp[r].source = "error")

\* ----------------------------------------------------------------- C3
\* C3: when the handler dispatched for service S fails (it raises, or the
\* external API call fails and the handler reports the error), the router
\* answers "An error occurred while accessing <S>.".
C3_ScopedFailure ==
    \A r \in Slots :
        (/\ Answered(r) /\ req[r].endpoint = "chat" /\ HandlerCount(r) = 1
         /\ (Count(calls[r], "exception") > 0 \/ "error" \in result[r].keys))
        => /\ resp[r].response.k = "access_error"
           /\ resp[r].response.service = ServiceTitle(intent[r].service)

\* ----------------------------------------------------------------- C4
\* C4: whenever the health probe fails for an open-ended message, generation
\* is not invoked and the reply is the canned reply of one of the fixed
\* fallback categories (or the generic capability summary), with source
\* assistant.
C4_DegradationFloor ==
    \A r \in Slots :
        (OpenEnded(r) /\ health[r] = "down")
        => /\ Answered(r)
           /\ Count(calls[r], "generate") = 0
           /\ reply[r] = NoReply
           /\ Plain(r)
           /\ resp[r].source = "assistant"
           /\ resp[r].response.k = "fallback"
           /\ \E c \in FallbackCategories :
                /\ resp[r].response.detail = << c >>
                /\ c = "greeting" <=> ContainsAny(Lower(req[r].message), Greetings)

\* the probe failed for "ok", which matches no category, and the generic
\* capability summary was returned
C4_Witness ==
    \E r \in Slots :
        /\ Answered(r) /\ OpenEnded(r) /\ health[r] = "down"
        /\ req[r].message = Msg_Ok
        /\ resp[r].response.detail = << "generic" >>

\* ----------------------------------------------------------------- C5
\* C5: when the health probe succeeds but the generation call hits a transport
\* fault (connection error, non-200 status, dropped stream), the reply is the
\* rule-based fallback reply, the one given when the probe fails, and no fault
\* text is shown.
C5_TransportFaultFallsBack ==
    \A r \in Slots :
        (/\ Answered(r) /\ OpenEnded(r) /\ health[r] = "up"
         /\ (reply[r].status \in { "http_error", "connect_error" } \/ reply[r].broken))
        => resp[r] = Response(FormatResponse(GetFallbackResponse(req[r].message),
                                             "assistant"), "assistant")

\* ----------------------------------------------------------------- C6
\* C6: no cached health state: every open-ended message is probed exactly once
\* and takes the generation path exactly when its own probe succeeded,
\* whatever the earlier probes returned.
C6_NoCachedHealth ==
    \A r \in Slots :
        /\ (OpenEnded(r) /\ pc[r] \in { "generate", "done" })
            => /\ Count(calls[r], "health_check") = 1
               /\ health[r] \in { "up", "down" }
        /\ health[r] = "up"
            => (pc[r] = "generate" \/ (Answered(r) /\ Count(calls[r], "generate") = 1))
        /\ health[r] = "down"
            => (Answered(r) /\ Count(calls[r], "generate") = 0
                /\ Count(calls[r], "get_fallback_response") = 1)

\* after a message whose probe failed, the next message's probe succeeded and
\* it was generated
C6_Witness ==
    \E r \in Slots :
        /\ probes = << FALSE, TRUE >>
        /\ Answered(r) /\ OpenEnded(r) /\ health[r] = "up"
        /\ reply[r].status = "ok"
        /\ Count(calls[r], "generate") = 1

\* ----------------------------------------------------------------- C7
\* C7: when the messaging handler's result contains an instruction, the
\* response carries that instruction with the handler's recipient and
\* message_content, each exactly as the handler produced it, next to the
\* display text the formatter built from the result.
C7_InstructionVerbatim ==
    \A r \in Slots :
        (Answered(r) /\ req[r].endpoint = "chat" /\ "instruction" \in result[r].keys)
        => /\ resp[r].keys = { "response", "source", "instruction", "recipient",
                               "message_content" }
           /\ resp[r].instruction = result[r].instruction
           /\ resp[r].recipient = result[r].recipient
           /\ resp[r].message_content = result[r].message_content
           /\ resp[r].response = FormatServiceResponse("sms", result[r])

\* an immediate send whose recipient was resolved to a contact's phone number
C7_Witness ==
    \E r \in Slots :
        /\ Answered(r)
        /\ result[r].instruction = "SEND_SMS"
        /\ result[r].recipient = ContactPhone
        /\ result[r].contact_name = ContactName
        /\ resp[r].recipient = ContactPhone

\* ----------------------------------------------------------------- C8
\* C8: a response holds the instruction field only when the message was
\* dispatched to the messaging service with a credential and the handler
\* produced SEND_SMS or SCHEDULE_SMS; every other response holds only
\* response and source.
C8_InstructionOnlyForSms ==
    \A r \in Slots :
        Answered(r)
        => IF "instruction" \in resp[r].keys
           THEN /\ Structured(r)
                /\ Classify(req[r].message).service = "sms"
                /\ ~NoCredential(r)
                /\ Count(calls[r], "handle_sms") = 1
                /\ resp[r].instruction \in { "SEND_SMS", "SCHEDULE_SMS" }
                /\ "instruction" \in result[r].keys
           ELSE Plain(r)

\* a scheduled message was answered with the SCHEDULE_SMS instruction
C8_Witness ==
    \E r \in Slots :
        /\ Answered(r)
        /\ "instruction" \in resp[r].keys
        /\ resp[r].instruction = "SCHEDULE_SMS"
        /\ req[r].message = Msg_TextLater

\* ----------------------------------------------------------------- C9
\* C9: every response has a source in {system, auth_required,
\* google_<service>, assistant, image_processing, error}; google_<service> only
\* with a credential, assistant only for open-ended messages, image_processing
\* only when an image and a credential were both present.
C9_SourceEnumeration ==
    \A r \in Slots :
        Answered(r)
        => /\ resp[r].source \in { "system", "auth_required", "assistant",
                                   "image_processing", "error" }
                                 \cup { "google_" \o s : s \in Services \cup UnregisteredServices }
           /\ resp[r].source \notin { "system", "auth_required", "assistant",
                                      "image_processing", "error" }
                => /\ Structured(r) /\ ~NoCredential(r)
                   /\ resp[r].source = "google_" \o Classify(req[r].message).service
           /\ resp[r].source = "assistant" => OpenEnded(r)
           /\ resp[r].source = "image_processing"
                => /\ req[r].endpoint = "unified"
                   /\ req[r].image = ImgBytes
                   /\ ~NoCredential(r)

\* a service message with a credential was answered with source google_calendar
C9_Witness ==
    \E r \in Slots :
        /\ Answered(r)
        /\ req[r].message = Msg_Calendar
        /\ req[r].access_token = TokValid
        /\ resp[r].source = "google_calendar"

\* ---------------------------------------------------------------- C10
\* C10: per message, each external call is made at most once: exactly one
\* service handler for a structured message with a credential and a registered
\* handler and none otherwise, at most one health probe, at most one
\* generation and only after this message's probe returned true, and never a
\* service handler together with the language model.
C10_AtMostOnce ==
    \A r \in Slots :
        /\ HandlerCount(r) <= 1
        /\ \A c \in { "health_check", "generate", "handle_image_processing",
                      "searchContacts", "schedule_sms", "list_scheduled_messages" } :
                Count(calls[r], c) <= 1
        /\ Answered(r)
            => HandlerCount(r) =
                 (IF /\ Structured(r) /\ ~NoCredential(r)
                     /\ Classify(req[r].message).service \notin UnregisteredServices
                  THEN 1 ELSE 0)
        /\ HandlerCount(r) = 1
            => Count(calls[r], ServiceHandlers[Classify(req[r].message).service]) = 1
        /\ Count(calls[r], "generate") = 1
            => /\ health[r] = "up"
               /\ \E i, j \in 1..Len(calls[r]) :
                    i < j /\ calls[r][i] = "health_check" /\ calls[r][j] = "generate"
        /\ HandlerCount(r) = 1
            => Count(calls[r], "health_check") + Count(calls[r], "generate") = 0

\* a handler call raised, was not repeated, and the language model was not asked
C10_Witness ==
    \E r \in Slots :
        /\ Answered(r)
        /\ HandlerCount(r) = 1
        /\ Count(calls[r], "exception") = 1
        /\ resp[r].response.k = "access_error"

\* ---------------------------------------------------------------- C11
\* C11: a structured-service message whose credential is present but invalid
\* or expired is answered with the auth_required response and no handler is
\* invoked, exactly as for a missing credential.
C11_InvalidCredentialGated ==
    \A r \in Slots :
        (Answered(r) /\ Structured(r) /\ req[r].access_token = TokInvalid)
        => /\ resp[r].source = "auth_required"
           /\ resp[r].response.k = "sign_in"
           /\ HandlerCount(r) = 0

\* ---------------------------------------------------------------- C12
\* C12: when the classified service has no registered handler and a credential
\* is present, the router invokes no handler, raises nothing and answers
\* "<Service> service is not yet implemented.".
C12_NotImplemented ==
    \A r \in Slots :
        (/\ Structured(r) /\ ~NoCredential(r)
         /\ Classify(req[r].message).service \in UnregisteredServices
         /\ pc[r] \notin { "idle", "chat" })
        => /\ Answered(r)
           /\ Plain(r)
           /\ resp[r].response.k = "not_implemented"
           /\ resp[r].response.service = ServiceTitle(Classify(req[r].message).service)
           /\ resp[r].source = "google_" \o Classify(req[r].message).service
           /\ HandlerCount(r) = 0
           /\ Count(calls[r], "exception") = 0

\* "find photos" with a valid credential was answered as not implemented
C12_Witness ==
    \E r \in Slots :
        /\ Answered(r)
        /\ req[r].message = Msg_Photos
        /\ req[r].access_token = TokValid
        /\ resp[r].response.k = "not_implemented"
        /\ resp[r].response.service = "Photos"

\* ---------------------------------------------------------------- C13
\* C13: a session is created only by the first request for its key and is
\* never removed or replaced: at every step the set of session keys only
\* grows, a key that appears is stamped with the current time and an empty
\* state, and the created_at of an existing session does not change.
C13_SessionLifecycle ==
    [][ /\ \A k \in DOMAIN sessions :
            /\ k \in DOMAIN sessions'
            /\ sessions'[k].created_at = sessions[k].created_at
        /\ \A k \in DOMAIN sessions' \ DOMAIN sessions :
            /\ sessions'[k].created_at = now
            /\ \E r \in Slots :
                /\ k = req[r].user_id \o << "_" >> \o req[r].session_id
                /\ pc[r] \in { "chat", "unified" } /\ pc'[r] # pc[r]
      ]_vars

\* a second request for a key found the session the first request created
C13_Witness ==
    \E r \in Slots :
        /\ received = 2 /\ now = 2
        /\ Count(calls[r], "ensure_session") = 1
        /\ DOMAIN sessions = { req[r].user_id \o << "_" >> \o req[r].session_id }
        /\ \A k \in DOMAIN sessions : sessions[k].created_at = 1

\* ---------------------------------------------------------------- C14
\* C14: for every inbound message the router stores that message's
\* classification in the session exactly once, and does so before branching:
\* before any handler is invoked and before the health probe.
C14_StoredOnceBeforeBranching ==
    \A r \in Slots :
        (req[r].endpoint = "chat" /\ req[r].body_ok /\ pc[r] \notin { "idle", "chat" })
        => /\ Count(calls[r], "store_intent") = 1
           /\ \A i, j \in 1..Len(calls[r]) :
                (calls[r][i] = "store_intent"
                 /\ calls[r][j] \in HandlerNames \cup { "health_check", "generate" })
                => i < j

\* ---------------------------------------------------------------- C15
\* C15: distinct (user_id, session_id) pairs never map to the same session, so
\* the classification a request stored in its session is only ever replaced by
\* a request of the same pair.
C15_SessionPerPair ==
    \A r \in Slots :
        (Count(calls[r], "store_intent") = 1)
        => \/ sessions[SessionKey(req[r].user_id, req[r].session_id)]
                  .state.intent_classification = intent[r]
           \/ \E o \in Slots \ { r } :
                /\ req[o].user_id = req[r].user_id
                /\ req[o].session_id = req[r].session_id
                /\ Count(calls[o], "store_intent") = 1

\* ---------------------------------------------------------------- C16
\* the categories in the order the claim lists them, with their phrases
CategoryOrder ==
    << "greeting", "status", "help", "datetime", "thanks", "farewell" >>

CategoryPhrases ==
    << Greetings, StatusPhrases, HelpPhrases, TimePhrases, ThanksPhrases, ByePhrases >>

\* the categories one of whose phrases is a case-insensitive substring of m
CategoryHits(m) ==
    { i \in 1..Len(CategoryOrder) :
        \E j \in 1..Len(CategoryPhrases[i]) :
            \E k \in 0..(Len(m) - Len(CategoryPhrases[i][j])) :
                Lower(SubSeq(m, k + 1, k + Len(CategoryPhrases[i][j]))) = CategoryPhrases[i][j] }

\* C16: get_fallback_response is total and follows a fixed order: it returns
\* the canned reply of the first category (greeting, status, help, date/time,
\* gratitude, farewell) one of whose phrases is a case-insensitive substring of
\* the message, and the generic reply iff no category matches; never nothing.
C16_FallbackOrder ==
    \A r \in Slots :
        (Answered(r) /\ Count(calls[r], "get_fallback_response") = 1)
        => LET hits == CategoryHits(req[r].message)
           IN  /\ resp[r].response.k = "fallback"
               /\ Len(resp[r].response.detail) = 1
               /\ resp[r].response.detail[1] \in FallbackCategories
               /\ hits = { } <=> resp[r].response.detail[1] = "generic"
               /\ hits # { }
                    => resp[r].response.detail[1]
                         = CategoryOrder[CHOOSE i \in hits : \A j \in hits : i <= j]

\* "Hello how are you" holds a greeting and a status phrase and got the greeting
C16_Witness ==
    \E r \in Slots :
        /\ Answered(r)
        /\ CategoryHits(req[r].message) = { 1, 2 }
        /\ resp[r].response.detail = << "greeting" >>

\* ---------------------------------------------------------------- C17
\* the lines of a streamed reply that carry a fragment, up to the closing line
FragmentLines(lines) ==
    LET closing == { i \in 1..Len(lines) : lines[i].valid /\ lines[i].done }
        last == IF closing = { } THEN Len(lines)
                ELSE CHOOSE i \in closing : \A j \in closing : i <= j
    IN  { i \in 1..last : lines[i].valid /\ lines[i].has_response }

\* the fragments of a streamed reply, in the order of their lines
Fragments(lines) ==
    LET kept == FragmentLines(lines)
    IN  [ k \in 1..Cardinality(kept) |->
            lines[CHOOSE i \in kept : Cardinality({ j \in kept : j <= i }) = k].response ]

\* C17: on the healthy path the reply is built after the generation sequence
\* is drained and is the in-order concatenation of every fragment produced for
\* the message: none dropped, duplicated or reordered.
C17_ConcatenatesAllFragments ==
    \A r \in Slots :
        (/\ Answered(r) /\ health[r] = "up"
         /\ reply[r].status = "ok" /\ ~reply[r].broken)
        => /\ chunks[r] = Fragments(reply[r].lines)
           /\ resp[r].response.k = "ollama"
           /\ resp[r].response.detail = << Join(chunks[r]) >>
           /\ Len(chunks[r]) = 2
                => resp[r].response.detail = << chunks[r][1] \o chunks[r][2] >>

\* two fragments arrived in the order "there", "Hi " and were joined in it
C17_Witness ==
    \E r \in Slots :
        /\ Answered(r) /\ health[r] = "up"
        /\ reply[r].status = "ok" /\ ~reply[r].broken
        /\ chunks[r] = << "there", "Hi " >>
        /\ resp[r].response.detail = << "thereHi " >>

\* ---------------------------------------------------------------- C18
\* C18: for a non-scheduled "text <recipient> saying <body>" command the
\* result is an immediate send whose body is the text after "saying" and whose
\* recipient query is the text before it without the filler verbs, both as the
\* user wrote them: "Text Mom saying Hi" gives "Mom" and "Hi".
C18_ExtractionAsWritten ==
    \A r \in Slots :
        (/\ Answered(r) /\ Structured(r) /\ ~NoCredential(r)
         /\ Count(calls[r], "handle_sms") = 1 /\ Count(calls[r], "exception") = 0
         /\ Contains(req[r].message, K_saying)
         /\ ~Contains(Lower(req[r].message), K_tomorrow)
         /\ ~Contains(Lower(req[r].message), K_every_day))
        => /\ result[r].instruction = "SEND_SMS"
           /\ result[r].message_content = Strip(Split(req[r].message, K_saying)[2])
           /\ Count(calls[r], "searchContacts") = 1
           /\ req[r].message = Msg_TextMom
                => /\ result[r].message_content = << "H", "i" >>
                   /\ result[r].contact_name \in { << "M", "o", "m" >>, ContactName }

\* ---------------------------------------------------------------- C19
\* handle_sms returned for a message without "saying" or "to say" and without
\* a scheduling cue
NoSayingReturned(r) ==
    /\ Answered(r) /\ Structured(r) /\ ~NoCredential(r)
    /\ Count(calls[r], "handle_sms") = 1 /\ Count(calls[r], "exception") = 0
    /\ ~Contains(Lower(req[r].message), K_saying)
    /\ ~Contains(Lower(req[r].message), K_to_say)
    /\ ~Contains(Lower(req[r].message), K_tomorrow)
    /\ ~Contains(Lower(req[r].message), K_every_day)

\* the message is a "list ... scheduled" or a "cancel ... sms" command
ManagementCommand(r) ==
    \/ Contains(Lower(req[r].message), K_list) /\ Contains(Lower(req[r].message), K_scheduled)
    \/ Contains(Lower(req[r].message), K_cancel) /\ Contains(Lower(req[r].message), K_sms)

\* no actionable parameters, no lookup, no send or schedule, generic SMS help
SoftFailure(r) ==
    /\ result[r].keys \cap { "instruction", "recipient", "message_content" } = { }
    /\ Count(calls[r], "searchContacts") = 0
    /\ Count(calls[r], "schedule_sms") = 0
    /\ result[r].action = "sms"
    /\ Plain(r)
    /\ resp[r].response.k = "formatted"
    /\ resp[r].response.service = "Sms"
    /\ resp[r].response.detail = << "sms", "" >>

C20_NumericRecipientDirect ==
    \A r \in Slots :
        (/\ Answered(r) /\ Structured(r) /\ ~NoCredential(r)
         /\ Count(calls[r], "handle_sms") = 1 /\ Count(calls[r], "exception") = 0
         /\ StartsWith(req[r].message, <<"T", "e", "x", "t", " ", "5", "5", "5", " ">>)
         /\ "instruction" \in result[r].keys)
        => /\ Count(calls[r], "searchContacts") = 0
           /\ result[r].recipient = << "5", "5", "5" >>

\* ---------------------------------------------------------------- C21
\* the contact search of the request in slot r ended without a phone number:
\* no match, a match without numbers, or a failure
LookupGaveNothing(r) ==
    \E o \in { "contact_none", "contact_nophone", "contact_fail" } :
        Count(calls[r], o) = 1

RangePhrases ==
    << [ phrase |-> << "t", "o", "d", "a", "y" >>, token |-> "today", rank |-> 1 ],
       [ phrase |-> << "t", "o", "m", "o", "r", "r", "o", "w" >>, token |-> "tomorrow", rank |-> 2 ],
       [ phrase |-> << "t", "h", "i", "s", " ", "w", "e", "e", "k" >>, token |-> "this week", rank |-> 3 ],
       [ phrase |-> << "n", "e", "x", "t", " ", "w", "e", "e", "k" >>, token |-> "next week", rank |-> 4 ] >>
    \o [ i \in 1..Len(MonthNames) |-> MonthNames[i] @@ [ rank |-> 5 ] ]
    \o [ i \in 1..Len(DayNames) |-> DayNames[i] @@ [ rank |-> 6 ] ]

\* the listed phrases that occur in m, in any letter case
RangeHits(m) ==
    { i \in 1..Len(RangePhrases) :
        \E k \in 0..(Len(m) - Len(RangePhrases[i].phrase)) :
            Lower(SubSeq(m, k + 1, k + Len(RangePhrases[i].phrase))) = RangePhrases[i].phrase }

\* C23: the calendar time-range extractor returns one token for every text:
\* the token of a listed phrase that occurs in the text, of the first kind in
\* the order today, tomorrow, this week, next week, month, weekday that
\* occurs, and upcoming if and only if no listed phrase occurs.
C23_TimeRangeToken ==
    \A r \in Slots :
        (Answered(r) /\ Count(calls[r], "handle_google_calendar") = 1)
        => LET hits == RangeHits(req[r].message)
               token == result[r].time_range
           IN  /\ hits = { } <=> token = "upcoming"
               /\ hits # { }
                    => \E i \in hits :
                        /\ RangePhrases[i].token = token
                        /\ \A j \in hits : RangePhrases[i].rank <= RangePhrases[j].rank

\* "calendar Tomorrow today" holds two phrases and got the token today
C23_Witness ==
    \E r \in Slots :
        /\ Answered(r)
        /\ RangeHits(req[r].message) = { 1, 2 }
        /\ Contains(req[r].message, << "T", "o", "m", "o", "r", "r", "o", "w", " ", "t" >>)
        /\ result[r].time_range = "today"

\* ---------------------------------------------------------------- C24
\* the marker words of each extractor in its order, and its default title
TitleMarkers(service) ==
    IF service = "docs" THEN << <<"a", "b", "o", "u", "t">>, <<"c", "a", "l", "l", "e", "d">>, <<"t", "i", "t", "l", "e", "d">> >>
    ELSE IF service = "sheets" THEN << <<"f", "o", "r">>, <<"c", "a", "l", "l", "e", "d">> >>
    ELSE << <<"f", "o", "r">>, <<"c", "a", "l", "l", "e", "d">>, <<"a", "b", "o", "u", "t">> >>

DefaultTitle(service) ==
    IF service = "docs" THEN <<"N", "e", "w", " ", "D", "o", "c", "u", "m", "e", "n", "t">>
    ELSE IF service = "sheets" THEN <<"N", "e", "w", " ", "S", "p", "r", "e", "a", "d", "s", "h", "e", "e", "t">>
    ELSE <<"N", "e", "w", " ", "F", "o", "r", "m">>

\* the places where marker occurs in m, in any letter case
MarkerPlaces(m, marker) ==
    { k \in 0..(Len(m) - Len(marker)) : Lower(SubSeq(m, k + 1, k + Len(marker))) = marker }

\* the trimmed, title-cased text after the first occurrence of marker in m
TitleAfter(m, marker) ==
    LET k == CHOOSE k \in MarkerPlaces(m, marker) : \A j \in MarkerPlaces(m, marker) : k <= j
    IN  TitleCase(Strip(SubSeq(m, k + Len(marker) + 1, Len(m))))

\* a document, spreadsheet or form was created for the request of slot r
Created(r) ==
    /\ pc[r] = "done"
    /\ result[r].action \in { "create_document", "create_spreadsheet", "create_form" }

\* C24: whenever the text contains one of the extractor's marker words, in any
\* letter case, the title of the created file is the trimmed, title-cased
\* remainder of the text after the first marker found in the extractor's
\* order; when no marker occurs the title is the fixed default.
C24_TitleAfterMarker ==
    \A r \in Slots :
        Created(r)
        => LET m == req[r].message
               markers == TitleMarkers(intent[r].service)
               found == { i \in 1..Len(markers) : MarkerPlaces(m, markers[i]) # { } }
           IN  IF found = { }
               THEN result[r].title = DefaultTitle(intent[r].service)
               ELSE result[r].title
                      = TitleAfter(m, markers[CHOOSE i \in found : \A j \in found : i <= j])

\* ---------------------------------------------------------------- C25
\* the request of slot r is classified and its classification stored in this step
ClassifiedNow(r) ==
    /\ Count(calls[r], "store_intent") = 0
    /\ Count(calls'[r], "store_intent") = 1

\* the provenance tag that the classification and the credential of a request
\* determine
OwnSource(q, it) ==
    IF it = NoIntent THEN "system"
    ELSE IF it.type = "llm" THEN "assistant"
    ELSE IF q.access_token \in { TokNone, TokEmpty } THEN "auth_required"
    ELSE "google_" \o it.service

\* C25: when messages of one (user_id, session_id) overlap, under every
\* interleaving at the awaits: the session record is created once and no later
\* request replaces it (its created_at never changes and it is never removed),
\* every request that is classified overwrites the stored classification with
\* its own and nothing else changes it, so that the stored classification is
\* that of the message classified last, and a finished request's reply carries
\* the provenance of its own classification, not of the other request's.
C25_LastWriteWins ==
    [][ /\ \A k \in DOMAIN sessions :
            /\ k \in DOMAIN sessions'
            /\ sessions'[k].created_at = sessions[k].created_at
            /\ (\A r \in Slots : ~ClassifiedNow(r)) => sessions'[k] = sessions[k]
        /\ \A r \in Slots :
            ClassifiedNow(r)
            => sessions'[req[r].user_id \o << "_" >> \o req[r].session_id]
                   .state.intent_classification = intent'[r]
        /\ \A r \in Slots :
            (pc'[r] = "done" /\ req'[r].endpoint = "chat")
            => resp'[r].source = OwnSource(req'[r], intent'[r])
      ]_vars

\* two requests of one pair overlapped: the request that arrived first was
\* classified last, both are answered, and the session holds the
\* classification of the one classified last
C25_Witness ==
    /\ received = 2
    /\ pc[1] = "done" /\ pc[2] = "done"
    /\ req[1].endpoint = "chat" /\ req[2].endpoint = "chat"
    /\ req[1].user_id = req[2].user_id /\ req[1].session_id = req[2].session_id
    /\ intent[1] # NoIntent /\ intent[2] # NoIntent /\ intent[1] # intent[2]
    /\ sessions[req[1].user_id \o << "_" >> \o req[1].session_id]
           .state.intent_classification = intent[1]
    /\ resp[2].source = OwnSource(req[2], intent[2])

\* ---------------------------------------------------------------- C26
\* C26: a unified query without an image part is answered as handle_chat
\* answers a chat request with the same user_id, session_id, message and
\* access_token: its reply carries the provenance that the message's
\* classification and the credential determine, never the error reply.
C26_UnifiedWithoutImageIsChat ==
    \A r \in Slots :
        (pc[r] = "done" /\ req[r].endpoint = "unified" /\ req[r].body_ok
         /\ req[r].image \in { ImgNone, ImgEmpty })
        => /\ resp[r].source
                = OwnSource(req[r], IF req[r].message # << >>
                                    THEN Classify(req[r].message) ELSE NoIntent)
           /\ resp[r] # Response(TxtUnifiedError, "error")

\* ---------------------------------------------------------------- C27
\* C27: a chat request whose message is empty or missing is answered "Please
\* provide a message." with source system as soon as it is routed; the
\* classifier, every service handler, the health probe and the generation are
\* not called; a session that exists is left as it is, stored classification
\* included, and a session that does not exist is created with an empty state.
C27_EmptyMessage ==
    [][ \A r \in Slots :
          (/\ pc[r] = "chat" /\ pc'[r] # "chat"
           /\ req[r].endpoint = "chat" /\ req[r].body_ok /\ req[r].message = << >>)
          => LET key == req[r].user_id \o << "_" >> \o req[r].session_id
             IN  /\ pc'[r] = "done"
                 /\ resp'[r].keys = { "response", "source" }
                 /\ resp'[r].response.k = "provide_message"
                 /\ resp'[r].source = "system"
                 /\ \A i \in 1..Len(calls'[r]) :
                        calls'[r][i] \notin HandlerNames \cup { "classify", "store_intent",
                                                               "health_check", "generate" }
                 /\ DOMAIN sessions' = DOMAIN sessions \cup { key }
                 /\ \A k \in DOMAIN sessions : sessions'[k] = sessions[k]
                 /\ key \notin DOMAIN sessions
                      => sessions'[key] = [ state |-> [ intent_classification |-> NoIntent ],
                                            created_at |-> now ]
      ]_vars

\* a request without a message was answered in a session that still holds the
\* classification of the request before it
C27_Witness ==
    \E r \in Slots :
        /\ Answered(r)
        /\ req[r].endpoint = "chat" /\ req[r].body_ok /\ req[r].message = << >>
        /\ resp[r].response.k = "provide_message"
        /\ sessions[req[r].user_id \o << "_" >> \o req[r].session_id]
               .state.intent_classification # NoIntent

\* ---------------------------------------------------------------- C28
\* C28: ensure_ollama_ready, when Ollama does not respond at first and the
\* service is launched, waits for it with wait_for_ollama; it returns True if
\* Ollama responds within the window and only if Ollama was seen responding,
\* and it returns False only when Ollama could not be launched or when all
\* max_retries polls of the window failed.
C28_WaitsAfterLaunch ==
    (manager.entry = "ensure_ollama_ready" /\ manager.pc = "returned")
    => /\ manager.launched => manager.waited # << >>
       /\ manager.returned = "True" => \E j \in 1..Len(manager.polls) : manager.polls[j]
       /\ manager.returned = "False"
            => \/ ~manager.launched
               \/ /\ Len(manager.waited) = max_retries
                  /\ \A j \in 1..Len(manager.waited) : ~manager.waited[j]

\* ---------------------------------------------------------------- C29
\* what wait_for_ollama has done so far is within its contract: at most
\* max_retries polls, none after a poll that found Ollama responding, True
\* returned at that poll, False returned only after max_retries failed polls
WaitWithinBudget ==
    LET w == manager.waited
    IN  /\ Len(w) <= max_retries
        /\ \A j \in 1..(Len(w) - 1) : ~w[j]
        /\ (w # << >> /\ w[Len(w)]) => (manager.pc = "returned" /\ manager.returned = "True")
        /\ manager.pc = "wait_for_ollama" => Len(w) < max_retries
        /\ (manager.pc = "returned" /\ w # << >> /\ ~w[Len(w)])
             => /\ manager.returned = "False"
                /\ Len(w) = max_retries

\* C29: wait_for_ollama always terminates after at most max_retries polls: it
\* returns True at the first poll that finds Ollama responding and polls no
\* more, and it returns False only after max_retries consecutive failed polls.
C29_WaitTerminates ==
    /\ []WaitWithinBudget
    /\ (manager.pc = "wait_for_ollama") ~> (manager.pc = "returned")

\* wait_for_ollama returned False after max_retries failed polls
C29_Witness ==
    /\ manager.pc = "returned"
    /\ manager.returned = "False"
    /\ Len(manager.waited) = max_retries
    /\ \A j \in 1..Len(manager.waited) : ~manager.waited[j]

\* ---------------------------------------------------------------- C30
\* the window from 00:00:00 of day first through 23:59:59 of day last, days
\* counted from a Monday
WholeDays(first, last) ==
    [ time_min |-> first * DaySeconds, time_max |-> last * DaySeconds + DaySeconds - 1 ]

\* the index in the week of a weekday token (Monday is 0), -1 for other tokens
WeekdayOf(token) ==
    CASE token = "Monday" -> 0 [] token = "Tuesday" -> 1 [] token = "Wednesday" -> 2
      [] token = "Thursday" -> 3 [] token = "Friday" -> 4 [] token = "Saturday" -> 5
      [] token = "Sunday" -> 6 [] OTHER -> -1

\* C30: list_calendar_events queries the window its range token names: today
\* and tomorrow that whole day, this week and next week Monday 00:00:00 through
\* Sunday 23:59:59 of that week, a weekday name the nearest day strictly after
\* today with that weekday (1 to 7 days ahead), a month name whole days of that
\* month, and the window from now to now + 30 days only the token upcoming.
C30_WindowOfToken ==
    \A r \in Slots :
        (Answered(r) /\ Count(calls[r], "list_calendar_events") = 1)
        => LET token == result[r].time_range
               window == result[r].window
               today == now \div DaySeconds
               monday == today - (today % 7)
               thirty == [ time_min |-> now, time_max |-> now + 30 * DaySeconds ]
           IN  /\ token = "today" => window = WholeDays(today, today)
               /\ token = "tomorrow" => window = WholeDays(today + 1, today + 1)
               /\ token = "this week" => window = WholeDays(monday, monday + 6)
               /\ token = "next week" => window = WholeDays(monday + 7, monday + 13)
               /\ WeekdayOf(token) >= 0
                    => \E ahead \in 1..7 :
                        /\ (today + ahead) % 7 = WeekdayOf(token)
                        /\ window = WholeDays(today + ahead, today + ahead)
               /\ token = "upcoming" => window = thirty
               /\ window = thirty => token = "upcoming"
               /\ (\E i \in 1..Len(MonthNames) : MonthNames[i].token = token)
                    => \E first, last \in 0..400 :
                        first <= last /\ window = WholeDays(first, last)

====
